---------------------------- MODULE Spec2Model ----------------------------
(***************************************************************************)
(* Model of the OWL-ViT Streamlit application (mutomasa/owl-vit-app):      *)
(* the text-guided detection request of OWLViTApp, with the query          *)
(* formatter, the dictionary translator, input preparation, inference and  *)
(* the confidence-threshold ladder over post-processing.                   *)
(*                                                                         *)
(* Strings are sequences of Unicode code points.  Confidence values        *)
(* (thresholds and scores) are integers in units of 10^-6; a product the   *)
(* code computes in IEEE-754 doubles carries the sign of its rounding      *)
(* error as +1/-1 in the last place, so that two doubles compare in the    *)
(* model as they compare in the program.                                   *)
(***************************************************************************)
EXTENDS Integers, Sequences, FiniteSets, TLC

(***************************************************************************)
(* Bounds of the model.                                                    *)
(***************************************************************************)
\* most candidate boxes in an inference output, in one entry or in several
MaxBoxes == 2
\* most entries (one per image of the batch) in an inference output
MaxEntries == 2
\* most entries of a prompt set handed to prepare_inputs on its own
MaxPromptSet == 2

\* the longest query list handed to validate_text_queries on its own
MaxValidated == 2

(***************************************************************************)
(* Program constants.                                                      *)
(***************************************************************************)
\* the confidence slider moves in steps of 0.05 ...
SliderStep == 50000
\* ... from 0.0 to 1.0, that is 20 steps
SliderSteps == 20
\* the two fixed floors of the ladder, 0.05 and 0.01
Floor1 == 50000
Floor2 == 10000
\* a query is cut to its first 50 characters
MaxQueryLen == 50
\* at most 5 formatted queries are kept
MaxQueries == 5
\* a prompt handed to the processor is cut to 100 characters
MaxPromptLen == 100
\* the largest code point is_japanese takes for Latin text
MaxAscii == 127

(***************************************************************************)
(* Strings.                                                                *)
(***************************************************************************)
\* str.isspace: the code points str.strip() removes
IsSpace(c) ==
    c \in ((9..13) \cup (28..32) \cup {133, 160, 5760} \cup (8192..8202)
           \cup {8232, 8233, 8239, 8287, 12288})

RECURSIVE LStrip(_)
LStrip(s) == IF s # <<>> /\ IsSpace(Head(s)) THEN LStrip(Tail(s)) ELSE s

RECURSIVE RStrip(_)
RStrip(s) ==
    IF s # <<>> /\ IsSpace(s[Len(s)]) THEN RStrip(SubSeq(s, 1, Len(s) - 1)) ELSE s

\* str.strip()
Strip(s) == RStrip(LStrip(s))

\* s[:n]
Take(s, n) == SubSeq(s, 1, IF Len(s) < n THEN Len(s) ELSE n)

\* sub in s
Contains(sub, s) ==
    \E i \in 0..(Len(s) - Len(sub)) : SubSeq(s, i + 1, i + Len(sub)) = sub

\* Optional[str]
NoneStr == [some |-> FALSE, val |-> <<>>]
SomeStr(s) == [some |-> TRUE, val |-> s]

(***************************************************************************)
(* translator.py: JapaneseTranslator.                                      *)
(***************************************************************************)
\* TRANSLATION_DICT, every entry in the order of the source (a Python dict
\* keeps insertion order), each as the code points of its key and of its
\* value: neko -> "cat", inu -> "dog", ... ; "TV" is its only Latin key.
TRANSLATION_DICT ==
    << [jp |-> <<29483>>, en |-> <<99, 97, 116>>],
       [jp |-> <<29356>>, en |-> <<100, 111, 103>>],
       [jp |-> <<40165>>, en |-> <<98, 105, 114, 100>>],
       [jp |-> <<39340>>, en |-> <<104, 111, 114, 115, 101>>],
       [jp |-> <<29275>>, en |-> <<99, 111, 119>>],
       [jp |-> <<35930>>, en |-> <<112, 105, 103>>],
       [jp |-> <<32650>>, en |-> <<115, 104, 101, 101, 112>>],
       [jp |-> <<40335>>, en |-> <<99, 104, 105, 99, 107, 101, 110>>],
       [jp |-> <<39770>>, en |-> <<102, 105, 115, 104>>],
       [jp |-> <<12397, 12371>>, en |-> <<99, 97, 116>>],
       [jp |-> <<12356, 12396>>, en |-> <<100, 111, 103>>],
       [jp |-> <<12392, 12426>>, en |-> <<98, 105, 114, 100>>],
       [jp |-> <<12358, 12414>>, en |-> <<104, 111, 114, 115, 101>>],
       [jp |-> <<12358, 12375>>, en |-> <<99, 111, 119>>],
       [jp |-> <<12406, 12383>>, en |-> <<112, 105, 103>>],
       [jp |-> <<12402, 12388, 12376>>, en |-> <<115, 104, 101, 101, 112>>],
       [jp |-> <<12395, 12431, 12392, 12426>>, en |-> <<99, 104, 105, 99, 107, 101, 110>>],
       [jp |-> <<12373, 12363, 12394>>, en |-> <<102, 105, 115, 104>>],
       [jp |-> <<36554>>, en |-> <<99, 97, 114>>],
       [jp |-> <<33258, 21205, 36554>>, en |-> <<99, 97, 114>>],
       [jp |-> <<33258, 36578, 36554>>, en |-> <<98, 105, 99, 121, 99, 108, 101>>],
       [jp |-> <<12496, 12452, 12463>>, en |-> <<109, 111, 116, 111, 114, 99, 121, 99, 108, 101>>],
       [jp |-> <<12458, 12540, 12488, 12496, 12452>>, en |-> <<109, 111, 116, 111, 114, 99, 121, 99, 108, 101>>],
       [jp |-> <<12496, 12473>>, en |-> <<98, 117, 115>>],
       [jp |-> <<38651, 36554>>, en |-> <<116, 114, 97, 105, 110>>],
       [jp |-> <<39131, 34892, 27231>>, en |-> <<97, 105, 114, 112, 108, 97, 110, 101>>],
       [jp |-> <<33337>>, en |-> <<115, 104, 105, 112>>],
       [jp |-> <<12508, 12540, 12488>>, en |-> <<98, 111, 97, 116>>],
       [jp |-> <<12488, 12521, 12483, 12463>>, en |-> <<116, 114, 117, 99, 107>>],
       [jp |-> <<12367, 12427, 12414>>, en |-> <<99, 97, 114>>],
       [jp |-> <<12376, 12390, 12435, 12375, 12419>>, en |-> <<98, 105, 99, 121, 99, 108, 101>>],
       [jp |-> <<12391, 12435, 12375, 12419>>, en |-> <<116, 114, 97, 105, 110>>],
       [jp |-> <<12402, 12371, 12358, 12365>>, en |-> <<97, 105, 114, 112, 108, 97, 110, 101>>],
       [jp |-> <<12405, 12397>>, en |-> <<115, 104, 105, 112>>],
       [jp |-> <<26885, 23376>>, en |-> <<99, 104, 97, 105, 114>>],
       [jp |-> <<12486, 12540, 12502, 12523>>, en |-> <<116, 97, 98, 108, 101>>],
       [jp |-> <<26426>>, en |-> <<100, 101, 115, 107>>],
       [jp |-> <<12477, 12501, 12449>>, en |-> <<115, 111, 102, 97>>],
       [jp |-> <<12505, 12483, 12489>>, en |-> <<98, 101, 100>>],
       [jp |-> <<26842>>, en |-> <<115, 104, 101, 108, 102>>],
       [jp |-> <<26412, 26842>>, en |-> <<98, 111, 111, 107, 115, 104, 101, 108, 102>>],
       [jp |-> <<12479, 12531, 12473>>, en |-> <<100, 114, 101, 115, 115, 101, 114>>],
       [jp |-> <<12356, 12377>>, en |-> <<99, 104, 97, 105, 114>>],
       [jp |-> <<12388, 12367, 12360>>, en |-> <<100, 101, 115, 107>>],
       [jp |-> <<12383, 12394>>, en |-> <<115, 104, 101, 108, 102>>],
       [jp |-> <<12411, 12435, 12384, 12394>>, en |-> <<98, 111, 111, 107, 115, 104, 101, 108, 102>>],
       [jp |-> <<12426, 12435, 12372>>, en |-> <<97, 112, 112, 108, 101>>],
       [jp |-> <<12496, 12490, 12490>>, en |-> <<98, 97, 110, 97, 110, 97>>],
       [jp |-> <<12458, 12524, 12531, 12472>>, en |-> <<111, 114, 97, 110, 103, 101>>],
       [jp |-> <<12500, 12470>>, en |-> <<112, 105, 122, 122, 97>>],
       [jp |-> <<12465, 12540, 12461>>, en |-> <<99, 97, 107, 101>>],
       [jp |-> <<12497, 12531>>, en |-> <<98, 114, 101, 97, 100>>],
       [jp |-> <<12372, 39151>>, en |-> <<114, 105, 99, 101>>],
       [jp |-> <<12497, 12473, 12479>>, en |-> <<112, 97, 115, 116, 97>>],
       [jp |-> <<12495, 12531, 12496, 12540, 12460, 12540>>, en |-> <<104, 97, 109, 98, 117, 114, 103, 101, 114>>],
       [jp |-> <<12469, 12531, 12489, 12452, 12483, 12481>>, en |-> <<115, 97, 110, 100, 119, 105, 99, 104>>],
       [jp |-> <<12372, 12399, 12435>>, en |-> <<114, 105, 99, 101>>],
       [jp |-> <<12522, 12514, 12467, 12531>>, en |-> <<114, 101, 109, 111, 116, 101, 32, 99, 111, 110, 116, 114, 111, 108>>],
       [jp |-> <<12486, 12524, 12499, 12398, 12522, 12514, 12467, 12531>>, en |-> <<116, 101, 108, 101, 118, 105, 115, 105, 111, 110, 32, 114, 101, 109, 111, 116, 101, 32, 99, 111, 110, 116, 114, 111, 108>>],
       [jp |-> <<12486, 12524, 12499, 12522, 12514, 12467, 12531>>, en |-> <<116, 101, 108, 101, 118, 105, 115, 105, 111, 110, 32, 114, 101, 109, 111, 116, 101, 32, 99, 111, 110, 116, 114, 111, 108>>],
       [jp |-> <<12486, 12524, 12499>>, en |-> <<116, 101, 108, 101, 118, 105, 115, 105, 111, 110>>],
       [jp |-> <<84, 86>>, en |-> <<116, 101, 108, 101, 118, 105, 115, 105, 111, 110>>],
       [jp |-> <<12497, 12477, 12467, 12531>>, en |-> <<99, 111, 109, 112, 117, 116, 101, 114>>],
       [jp |-> <<12467, 12531, 12500, 12517, 12540, 12479, 12540>>, en |-> <<99, 111, 109, 112, 117, 116, 101, 114>>],
       [jp |-> <<12473, 12510, 12540, 12488, 12501, 12457, 12531>>, en |-> <<115, 109, 97, 114, 116, 112, 104, 111, 110, 101>>],
       [jp |-> <<12473, 12510, 12507>>, en |-> <<115, 109, 97, 114, 116, 112, 104, 111, 110, 101>>],
       [jp |-> <<25658, 24111, 38651, 35441>>, en |-> <<109, 111, 98, 105, 108, 101, 32, 112, 104, 111, 110, 101>>],
       [jp |-> <<25658, 24111>>, en |-> <<109, 111, 98, 105, 108, 101, 32, 112, 104, 111, 110, 101>>],
       [jp |-> <<12459, 12513, 12521>>, en |-> <<99, 97, 109, 101, 114, 97>>],
       [jp |-> <<12521, 12472, 12458>>, en |-> <<114, 97, 100, 105, 111>>],
       [jp |-> <<12473, 12500, 12540, 12459, 12540>>, en |-> <<115, 112, 101, 97, 107, 101, 114>>],
       [jp |-> <<12504, 12483, 12489, 12501, 12457, 12531>>, en |-> <<104, 101, 97, 100, 112, 104, 111, 110, 101, 115>>],
       [jp |-> <<12452, 12516, 12507, 12531>>, en |-> <<101, 97, 114, 112, 104, 111, 110, 101, 115>>],
       [jp |-> <<12479, 12502, 12524, 12483, 12488>>, en |-> <<116, 97, 98, 108, 101, 116>>],
       [jp |-> <<12503, 12522, 12531, 12479, 12540>>, en |-> <<112, 114, 105, 110, 116, 101, 114>>],
       [jp |-> <<12461, 12540, 12508, 12540, 12489>>, en |-> <<107, 101, 121, 98, 111, 97, 114, 100>>],
       [jp |-> <<12510, 12454, 12473>>, en |-> <<109, 111, 117, 115, 101>>],
       [jp |-> <<12514, 12491, 12479, 12540>>, en |-> <<109, 111, 110, 105, 116, 111, 114>>],
       [jp |-> <<12487, 12451, 12473, 12503, 12524, 12452>>, en |-> <<100, 105, 115, 112, 108, 97, 121>>],
       [jp |-> <<12465, 12540, 12479, 12452>>, en |-> <<109, 111, 98, 105, 108, 101, 32, 112, 104, 111, 110, 101>>],
       [jp |-> <<26412>>, en |-> <<98, 111, 111, 107>>],
       [jp |-> <<12506, 12531>>, en |-> <<112, 101, 110>>],
       [jp |-> <<37467, 31558>>, en |-> <<112, 101, 110, 99, 105, 108>>],
       [jp |-> <<12494, 12540, 12488>>, en |-> <<110, 111, 116, 101, 98, 111, 111, 107>>],
       [jp |-> <<32025>>, en |-> <<112, 97, 112, 101, 114>>],
       [jp |-> <<26178, 35336>>, en |-> <<99, 108, 111, 99, 107>>],
       [jp |-> <<33109, 26178, 35336>>, en |-> <<119, 97, 116, 99, 104>>],
       [jp |-> <<36001, 24067>>, en |-> <<119, 97, 108, 108, 101, 116>>],
       [jp |-> <<12363, 12400, 12435>>, en |-> <<98, 97, 103>>],
       [jp |-> <<12496, 12483, 12464>>, en |-> <<98, 97, 103>>],
       [jp |-> <<38772>>, en |-> <<115, 104, 111, 101, 115>>],
       [jp |-> <<12367, 12388>>, en |-> <<115, 104, 111, 101, 115>>],
       [jp |-> <<24125, 23376>>, en |-> <<104, 97, 116>>],
       [jp |-> <<12412, 12358, 12375>>, en |-> <<104, 97, 116>>],
       [jp |-> <<30524, 37857>>, en |-> <<103, 108, 97, 115, 115, 101, 115>>],
       [jp |-> <<12417, 12364, 12397>>, en |-> <<103, 108, 97, 115, 115, 101, 115>>],
       [jp |-> <<20632>>, en |-> <<117, 109, 98, 114, 101, 108, 108, 97>>],
       [jp |-> <<12363, 12373>>, en |-> <<117, 109, 98, 114, 101, 108, 108, 97>>],
       [jp |-> <<12489, 12450>>, en |-> <<100, 111, 111, 114>>],
       [jp |-> <<31379>>, en |-> <<119, 105, 110, 100, 111, 119>>],
       [jp |-> <<12414, 12393>>, en |-> <<119, 105, 110, 100, 111, 119>>],
       [jp |-> <<37749>>, en |-> <<107, 101, 121>>],
       [jp |-> <<12363, 12366>>, en |-> <<107, 101, 121>>],
       [jp |-> <<38651, 35441>>, en |-> <<112, 104, 111, 110, 101>>],
       [jp |-> <<12391, 12435, 12431>>, en |-> <<112, 104, 111, 110, 101>>],
       [jp |-> <<33457, 29942>>, en |-> <<118, 97, 115, 101>>],
       [jp |-> <<12363, 12403, 12435>>, en |-> <<118, 97, 115, 101>>],
       [jp |-> <<33457>>, en |-> <<102, 108, 111, 119, 101, 114>>],
       [jp |-> <<12399, 12394>>, en |-> <<102, 108, 111, 119, 101, 114>>],
       [jp |-> <<26893, 29289>>, en |-> <<112, 108, 97, 110, 116>>],
       [jp |-> <<12375, 12423, 12367, 12406, 12388>>, en |-> <<112, 108, 97, 110, 116>>],
       [jp |-> <<26408>>, en |-> <<116, 114, 101, 101>>],
       [jp |-> <<12365>>, en |-> <<116, 114, 101, 101>>],
       [jp |-> <<33609>>, en |-> <<103, 114, 97, 115, 115>>],
       [jp |-> <<12367, 12373>>, en |-> <<103, 114, 97, 115, 115>>] >>

\* is_japanese as its comment reads: some character is a hiragana, a
\* katakana or a kanji
is_japanese_kana(text) ==
    \E i \in 1..Len(text) : text[i] \in (12352..12543) \cup (19968..40959)

\* is_japanese: some character has a code point above 127
is_japanese(text) == \E i \in 1..Len(text) : text[i] > MaxAscii

\* The replies the translation endpoint can give to requests.get:
\*   "timeout"     requests.exceptions.Timeout is raised
\*   "connection"  another requests.exceptions.RequestException is raised
\*   "status"      a status code other than 200
\*   "badjson"     status 200, the body is not JSON
\*   "shape"       status 200, JSON on which the reading of result[0][0][0]
\*                 stops or raises: [], [[]], [[[]]], [null], {"a": 1}
\*   "flat"        status 200, JSON [[text]]: the first element is an array
\*                 of strings, not of tuples, and result[0][0][0] is the
\*                 first character of text
\*   "ok"          status 200, JSON [[[text, ...]]], the expected shape
ApiReplies ==
    { [kind |-> "timeout", text |-> <<>>],
      [kind |-> "connection", text |-> <<>>],
      [kind |-> "status", text |-> <<>>],
      [kind |-> "badjson", text |-> <<>>],
      [kind |-> "shape", text |-> <<>>],
      [kind |-> "flat", text |-> <<101, 108, 101, 112, 104, 97, 110, 116>>],
      [kind |-> "ok", text |-> <<>>],
      [kind |-> "ok", text |-> <<101, 108, 101, 112, 104, 97, 110, 116>>] }

\* no request was made to the translation endpoint
NoRequest == [kind |-> "none", text |-> <<>>]

\* result[0][0][0] where the reading gets that far: the text of the first
\* tuple, or the first character of a string found in the tuple's place
FirstOfFirst(reply) ==
    IF reply.kind = "ok" THEN SomeStr(reply.text)
    ELSE IF reply.kind = "flat" /\ reply.text # <<>> THEN SomeStr(Take(reply.text, 1))
    ELSE NoneStr

\* _translate_with_api: result[0][0][0].strip() unless it is empty or equal
\* to the query; None otherwise, and after every exception
translate_with_api(japanese_query, reply) ==
    IF FirstOfFirst(reply).some
       /\ Strip(FirstOfFirst(reply).val) # <<>>
       /\ Strip(FirstOfFirst(reply).val) # japanese_query
    THEN SomeStr(Strip(FirstOfFirst(reply).val))
    ELSE NoneStr

\* the first dictionary entry equal to the query (0 if none)
ExactIndex(q) ==
    IF \E i \in 1..Len(TRANSLATION_DICT) : TRANSLATION_DICT[i].jp = q
    THEN CHOOSE i \in 1..Len(TRANSLATION_DICT) : TRANSLATION_DICT[i].jp = q
    ELSE 0

\* the scan without the sort: the first entry, in the order of the table,
\* whose key the query contains
SubstringIndex_table_order(q) ==
    LET hits == {i \in 1..Len(TRANSLATION_DICT) : Contains(TRANSLATION_DICT[i].jp, q)}
    IN  IF hits = {} THEN 0
        ELSE CHOOSE i \in hits : \A j \in hits : i <= j

\* sorted(items, key=len(key), reverse=True) is stable: the first match of
\* the scan is the earliest entry among the longest keys contained in q
SubstringIndex(q) ==
    LET hits == {i \in 1..Len(TRANSLATION_DICT) : Contains(TRANSLATION_DICT[i].jp, q)}
    IN  IF hits = {} THEN 0
        ELSE CHOOSE i \in hits :
               \A j \in hits :
                  \/ Len(TRANSLATION_DICT[j].jp) < Len(TRANSLATION_DICT[i].jp)
                  \/ /\ Len(TRANSLATION_DICT[j].jp) = Len(TRANSLATION_DICT[i].jp)
                     /\ i <= j

\* the external request made whenever use_api is set, a hit of the table or
\* not
NeedsApi_always(q, use_api) == use_api

\* does translate_japanese_to_english reach the external request?
NeedsApi(q, use_api) == use_api /\ ExactIndex(q) = 0 /\ SubstringIndex(q) = 0

\* translate_japanese_to_english as a plain scan of the table: no lookup of
\* the whole query first, no sort of the keys
translate_japanese_to_english_scan(japanese_query, use_api, reply) ==
    IF SubstringIndex_table_order(japanese_query) # 0
    THEN TRANSLATION_DICT[SubstringIndex_table_order(japanese_query)].en
    ELSE IF use_api /\ translate_with_api(japanese_query, reply).some
    THEN translate_with_api(japanese_query, reply).val
    ELSE japanese_query

\* translate_japanese_to_english asking the endpoint whatever use_api is
translate_japanese_to_english_asking(japanese_query, use_api, reply) ==
    IF ExactIndex(japanese_query) # 0
    THEN TRANSLATION_DICT[ExactIndex(japanese_query)].en
    ELSE IF SubstringIndex(japanese_query) # 0
    THEN TRANSLATION_DICT[SubstringIndex(japanese_query)].en
    ELSE IF translate_with_api(japanese_query, reply).some
    THEN translate_with_api(japanese_query, reply).val
    ELSE japanese_query

\* translate_japanese_to_english
translate_japanese_to_english(japanese_query, use_api, reply) ==
    IF ExactIndex(japanese_query) # 0
    THEN TRANSLATION_DICT[ExactIndex(japanese_query)].en
    ELSE IF SubstringIndex(japanese_query) # 0
    THEN TRANSLATION_DICT[SubstringIndex(japanese_query)].en
    ELSE IF use_api /\ translate_with_api(japanese_query, reply).some
    THEN translate_with_api(japanese_query, reply).val
    ELSE japanese_query

(***************************************************************************)
(* model_manager.py: TextQueryProcessor.format_text_queries.               *)
(***************************************************************************)
\* the two values of the translation_method selectbox
DictOnly == "dictionary only"
DictApi == "dictionary + API"

\* "a photo of the "
PromptPrefix_the ==
    <<97, 32, 112, 104, 111, 116, 111, 32, 111, 102, 32, 116, 104, 101, 32>>

\* "a photo of a "
PromptPrefix == <<97, 32, 112, 104, 111, 116, 111, 32, 111, 102, 32, 97, 32>>

\* the cut to 50 characters made before strip() instead of after it
TrimmedQuery_cut_first(query) == Strip(Take(query, MaxQueryLen))

\* the query after strip() and the cut to 50 characters
TrimmedQuery(query) == Take(Strip(query), MaxQueryLen)

\* the loop body without the test of is_japanese: every query is handed to
\* the translator
FormatOne_translating(query, use_api, reply) ==
    PromptPrefix \o translate_japanese_to_english(TrimmedQuery(query), use_api, reply)

\* one pass of the loop body: the prompt appended for one query
FormatOne(query, use_api, reply) ==
    LET q == TrimmedQuery(query)
    IN  IF is_japanese(q)
        THEN PromptPrefix \o translate_japanese_to_english(q, use_api, reply)
        ELSE PromptPrefix \o q

\* the terms the loop hands to translate_japanese_to_english, in order: the
\* trimmed form of every query that is_japanese, those past the fifth too
translated_terms(text_queries) ==
    SelectSeq([i \in 1..Len(text_queries) |-> TrimmedQuery(text_queries[i])],
              is_japanese)

\* the terms for which the loop reaches the translation endpoint, in order
requested_terms(text_queries, translation_method) ==
    SelectSeq(translated_terms(text_queries),
              LAMBDA q : NeedsApi(q, translation_method = DictApi))

\* a Python list of strings, as prepare_inputs sees it
ListOf(items) == [list |-> TRUE, items |-> items]
StrItem(s) == [str |-> TRUE, val |-> s]

\* s[-n:]
TakeLast(s, n) == SubSeq(s, IF Len(s) < n THEN 1 ELSE Len(s) - n + 1, Len(s))

\* format_text_queries keeping the last five prompts instead of the first
format_text_queries_last(text_queries, translation_method, replies) ==
    LET use_api == translation_method = DictApi
        formatted == [i \in 1..Len(text_queries) |->
                        FormatOne(text_queries[i], use_api, replies[i])]
        kept == TakeLast(formatted, MaxQueries)
    IN  [i \in 1..Len(kept) |-> ListOf(<<StrItem(kept[i])>>)]

\* list(dict.fromkeys(seq)): the sequence without the repetitions of an
\* earlier element
RECURSIVE Unique(_)
Unique(seq) ==
    IF seq = <<>> THEN <<>>
    ELSE LET front == Unique(SubSeq(seq, 1, Len(seq) - 1))
             last == seq[Len(seq)]
         IN  IF \E k \in 1..Len(front) : front[k] = last
             THEN front
             ELSE Append(front, last)

\* x in seq, for a Python list
InList(x, seq) == \E k \in 1..Len(seq) : seq[k] = x

\* translate_with_multiple_methods: the dictionary translation when it
\* differs from the query, then what the endpoint gives (asked for every
\* query) unless it is already listed, then the query itself
translate_with_multiple_methods(japanese_query, reply) ==
    LET dict_translation ==
            translate_japanese_to_english(japanese_query, FALSE, NoRequest)
        first == IF dict_translation # japanese_query
                 THEN << dict_translation >>
                 ELSE <<>>
        api_translation == translate_with_api(japanese_query, reply)
        second == IF api_translation.some /\ ~InList(api_translation.val, first)
                  THEN Append(first, api_translation.val)
                  ELSE first
    IN  Append(second, japanese_query)

\* query.startswith(prefix)
StartsWith(query, prefix) ==
    Len(query) >= Len(prefix) /\ SubSeq(query, 1, Len(prefix)) = prefix

\* the variations of a query without a character above 127: the plural or
\* the singular, then the six phrasings unless it starts with "a " or "the "
english_variations(query) ==
    LET number == IF query # <<>> /\ query[Len(query)] = 115
                  THEN << SubSeq(query, 1, Len(query) - 1) >>
                  ELSE << Append(query, 115) >>
        phrasings ==
            IF ~StartsWith(query, <<97, 32>>)
               /\ ~StartsWith(query, <<116, 104, 101, 32>>)
            THEN << <<97, 32>> \o query,
                    <<116, 104, 101, 32>> \o query,
                    <<97, 32, 112, 104, 111, 116, 111, 32, 111, 102, 32>> \o query,
                    <<97, 32, 112, 104, 111, 116, 111, 32, 111, 102, 32, 97, 32>> \o query,
                    <<97, 110, 32, 105, 109, 97, 103, 101, 32, 111, 102, 32>> \o query,
                    <<97, 110, 32, 105, 109, 97, 103, 101, 32, 111, 102, 32, 97, 32>> \o query >>
            ELSE <<>>
    IN  number \o phrasings

\* get_multiple_query_variations: the query, then its translations (all
\* methods with use_api, the dictionary alone without) or its English
\* variations, each listed once
get_multiple_query_variations(query, use_api, reply) ==
    LET translations ==
            IF use_api
            THEN translate_with_multiple_methods(query, reply)
            ELSE LET english ==
                         translate_japanese_to_english(query, FALSE, NoRequest)
                 IN  IF english # query THEN << english >> ELSE <<>>
    IN  Unique(<< query >> \o (IF is_japanese(query)
                               THEN translations
                               ELSE english_variations(query)))

\* format_text_queries dropping the prompts that repeat an earlier prompt
format_text_queries_unique(text_queries, translation_method, replies) ==
    LET use_api == translation_method = DictApi
        formatted == Unique([i \in 1..Len(text_queries) |->
                               FormatOne(text_queries[i], use_api, replies[i])])
        kept == Take(formatted, MaxQueries)
    IN  [i \in 1..Len(kept) |-> ListOf(<<StrItem(kept[i])>>)]

\* format_text_queries; replies[i] is the endpoint's reply to the request
\* made for the i-th query, if one is made
format_text_queries(text_queries, translation_method, replies) ==
    LET use_api == translation_method = DictApi
        formatted == [i \in 1..Len(text_queries) |->
                        FormatOne(text_queries[i], use_api, replies[i])]
        kept == Take(formatted, MaxQueries)
    IN  [i \in 1..Len(kept) |-> ListOf(<<StrItem(kept[i])>>)]

\* validate_text_queries with the length taken before strip()
validate_text_queries_untrimmed(text_queries) ==
    /\ text_queries # <<>>
    /\ \A i \in 1..Len(text_queries) :
          /\ Strip(text_queries[i]) # <<>>
          /\ Len(text_queries[i]) >= 2

\* validate_text_queries: a non-empty list whose queries all keep at least
\* two characters after strip()
validate_text_queries(text_queries) ==
    /\ text_queries # <<>>
    /\ \A i \in 1..Len(text_queries) :
          /\ Strip(text_queries[i]) # <<>>
          /\ Len(Strip(text_queries[i])) >= 2

(***************************************************************************)
(* model_manager.py: DetectionProcessor.                                   *)
(***************************************************************************)
\* Optional[inputs]: what was handed to the processor
NoneInputs == [some |-> FALSE, text |-> <<>>]

\* the entry is a list that holds at least one element
IsNonEmptyList(query_list) == query_list.list /\ Len(query_list.items) > 0

\* the loop over the entries returns None at an entry that is no non-empty
\* list, and len(query) raises at a first element that has no length
EntryAccepted(query_list) == IsNonEmptyList(query_list) /\ query_list.items[1].str

\* normalized_queries: the first element of each entry, cut to 100 characters
normalized_queries(text_queries) ==
    [i \in 1..Len(text_queries) |-> Take(text_queries[i].items[1].val, MaxPromptLen)]

\* prepare_inputs without the cut to 100 characters
prepare_inputs_uncut(text_queries, processor_raises) ==
    IF text_queries = <<>> THEN NoneInputs
    ELSE IF \E i \in 1..Len(text_queries) : ~EntryAccepted(text_queries[i])
    THEN NoneInputs
    ELSE IF processor_raises THEN NoneInputs
    ELSE [some |-> TRUE,
          text |-> [i \in 1..Len(text_queries) |-> text_queries[i].items[1].val]]

\* prepare_inputs without the check of line 165: an empty prompt set is
\* handed to the processor
prepare_inputs_unchecked(text_queries, processor_raises) ==
    IF \E i \in 1..Len(text_queries) : ~EntryAccepted(text_queries[i])
    THEN NoneInputs
    ELSE IF processor_raises THEN NoneInputs
    ELSE [some |-> TRUE, text |-> normalized_queries(text_queries)]

\* prepare_inputs; processor_raises says whether the processor call raises
prepare_inputs(text_queries, processor_raises) ==
    IF text_queries = <<>> THEN NoneInputs
    ELSE IF \E i \in 1..Len(text_queries) : ~EntryAccepted(text_queries[i])
    THEN NoneInputs
    ELSE IF processor_raises THEN NoneInputs
    ELSE [some |-> TRUE, text |-> normalized_queries(text_queries)]

\* Optional[outputs] and Optional[results]: a sequence of entries, each a
\* sequence of boxes
NoneBoxes == [some |-> FALSE, val |-> <<>>]
SomeBoxes(entries) == [some |-> TRUE, val |-> entries]

\* the boxes of one entry whose score exceeds the threshold, in order
RECURSIVE FilterAbove(_, _)
FilterAbove(boxes, threshold) ==
    IF boxes = <<>> THEN <<>>
    ELSE IF Head(boxes).score > threshold
         THEN <<Head(boxes)>> \o FilterAbove(Tail(boxes), threshold)
         ELSE FilterAbove(Tail(boxes), threshold)

\* processor.post_process_object_detection: one result per entry, holding the
\* boxes that score above the threshold
post_process_object_detection(outs, threshold) ==
    [i \in 1..Len(outs) |-> FilterAbove(outs[i], threshold)]

\* post_process_results: None when the processor raises
post_process_results(outs, threshold, processor_raises) ==
    IF processor_raises THEN NoneBoxes
    ELSE SomeBoxes(post_process_object_detection(outs.val, threshold))

(***************************************************************************)
(* app.py: OWLViTApp.run_text_guided_detection.                            *)
(***************************************************************************)
\* The sign of the rounding error of the double product t * (tenths/10) for
\* t = k * 0.05, against the double nearest to the exact product.
FloatErr(k, tenths) ==
    IF tenths = 7 /\ k \in {1, 2, 4, 7, 8, 13, 14, 15, 16, 19} THEN -1
    ELSE IF tenths = 3 /\ k = 15 THEN -1
    ELSE IF tenths = 1 /\ k \in {1, 2, 4, 8, 9, 11, 15, 16, 18} THEN 1
    ELSE IF tenths = 1 /\ k \in {7, 14} THEN -1
    ELSE 0

\* confidence_threshold * 0.7, * 0.5, * 0.3, * 0.1
Times(t, tenths) ==
    (t * tenths) \div 10
      + (IF t % SliderStep = 0 THEN FloatErr(t \div SliderStep, tenths) ELSE 0)

\* thresholds_to_try with the fifth threshold at 0.2 instead of 0.1 of the base
thresholds_to_try_fifth(confidence_threshold) ==
    << confidence_threshold,
       Times(confidence_threshold, 7),
       Times(confidence_threshold, 5),
       Times(confidence_threshold, 3),
       Times(confidence_threshold, 2),
       Floor1,
       Floor2 >>

\* thresholds_to_try with one more fixed floor, 0.005, at its end
thresholds_to_try_eight(confidence_threshold) ==
    << confidence_threshold,
       Times(confidence_threshold, 7),
       Times(confidence_threshold, 5),
       Times(confidence_threshold, 3),
       Times(confidence_threshold, 1),
       Floor1,
       Floor2,
       Floor2 \div 2 >>

\* thresholds_to_try
thresholds_to_try(confidence_threshold) ==
    << confidence_threshold,
       Times(confidence_threshold, 7),
       Times(confidence_threshold, 5),
       Times(confidence_threshold, 3),
       Times(confidence_threshold, 1),
       Floor1,
       Floor2 >>

\* results and any(len(result["boxes"]) > 0 for result in results)
HasBoxes(res) == res.some /\ \E i \in 1..Len(res.val) : Len(res.val[i]) > 0

\* Optional[float]
NoneThreshold == [some |-> FALSE, val |-> 0]
SomeThreshold(t) == [some |-> TRUE, val |-> t]

\* create_detection_visualization: the boxes drawn on the image are those
\* whose score is at least confidence_threshold
DrawnBoxes(boxes, confidence_threshold) ==
    SelectSeq(boxes, LAMBDA b : b.score >= confidence_threshold)

\* what run_text_guided_detection returns: None or a rendered image
ReturnNone == [image |-> FALSE, drawn |-> <<>>]
ReturnImage(drawn) == [image |-> TRUE, drawn |-> drawn]

\* display_detection_results reads text_queries[i] for the i-th result
DisplayRaises(res, queries) == Len(res.val) > Len(queries)


\* the default of the parameter use_api of translate_japanese_to_english,
\* switched on
default_use_api_on == TRUE

\* the default of the parameter use_api of translate_japanese_to_english
default_use_api == FALSE

\* "unknown"
Unknown == <<117, 110, 107, 110, 111, 119, 110>>

\* the label of the box whose prompt index is label_idx: the original query
\* at that index, followed by its translation in parentheses when the query
\* is Japanese and the translation differs from it; "unknown" when the index
\* is not below the number of queries
LabelOf(label_idx, queries) ==
    IF label_idx < Len(queries)
    THEN LET original_query == queries[label_idx + 1]
             english_translation ==
                translate_japanese_to_english(original_query, default_use_api,
                                              NoRequest)
         IN  IF is_japanese(original_query) /\ english_translation # original_query
             THEN original_query \o <<40>> \o english_translation \o <<41>>
             ELSE original_query
    ELSE Unknown

\* the labels listed by prompt index, as a loop over the queries gives them
box_labels_by_prompt(boxes, queries) ==
    LET sorted == SortSeq(boxes, LAMBDA a, b : a.label < b.label)
    IN  [i \in 1..Len(sorted) |-> LabelOf(sorted[i].label, queries)]

\* labels: one per box of the first result, in box order
box_labels(boxes, queries) ==
    [i \in 1..Len(boxes) |-> LabelOf(boxes[i].label, queries)]

\* the original queries the label step hands to
\* translate_japanese_to_english, in box order
label_terms(boxes, queries) ==
    SelectSeq([i \in 1..Len(boxes) |->
                  IF boxes[i].label < Len(queries)
                  THEN queries[boxes[i].label + 1]
                  ELSE <<>>],
              LAMBDA q : is_japanese(q))

\* those of them sent to the translation endpoint
label_requests(boxes, queries) ==
    SelectSeq(label_terms(boxes, queries),
              LAMBDA q : NeedsApi(q, default_use_api))

\* run_inference: None when the model raises, the model's output otherwise
run_inference(model_raises, model_output) ==
    IF model_raises THEN NoneBoxes ELSE SomeBoxes(model_output)

(***************************************************************************)
(* The inputs of a request.                                                *)
(***************************************************************************)
\* the values of the confidence slider used: 0.0, 0.05, 0.1 (the default),
\* 0.5 and 1.0
ConfidenceValues == {k * SliderStep : k \in {0, 1, 2, 10, SliderSteps}}

\* the query list of the simple detection mode: person, car, dog
basic_queries ==
    << <<112, 101, 114, 115, 111, 110>>, <<99, 97, 114>>, <<100, 111, 103>> >>

\* what a user may type into the query fields: "TV"; terebi no rimokon and
\* " cat "; zou, which no dictionary key matches; neko alone, which
\* validation refuses
QueryLists ==
    { << <<84, 86>> >>,
      << <<12486, 12524, 12499, 12398, 12522, 12514, 12467, 12531>>,
         <<32, 99, 97, 116, 32>> >>,
      << <<12478, 12454>> >>,
      << <<29483>> >> }

\* scores a candidate box may have: 0.008, 0.09 and 0.5
Scores == {8000, 90000, 500000}

\* the candidate boxes: one per score, with the index of the prompt the
\* model matched it to (result["labels"]): 0, 1 and 2
Boxes ==
    { [score |-> 8000, label |-> 0],
      [score |-> 90000, label |-> 1],
      [score |-> 500000, label |-> 2] }
EntrySet == UNION {[1..n -> Boxes] : n \in 0..MaxBoxes}

\* the number of boxes in all the entries of an output
RECURSIVE BoxCount(_)
BoxCount(output) ==
    IF output = <<>> THEN 0
    ELSE Len(Head(output)) + BoxCount(Tail(output))

\* what the model may give for an image: up to MaxEntries entries holding up
\* to MaxBoxes boxes between them, in any order
OutputsSet ==
    { output \in UNION {[1..m -> EntrySet] : m \in 1..MaxEntries} :
         BoxCount(output) <= MaxBoxes }

\* the replies the endpoint may give for one query: none when
\* format_text_queries does not reach the endpoint for it
RepliesFor(query, method) ==
    IF is_japanese(TrimmedQuery(query)) /\ NeedsApi(TrimmedQuery(query), method = DictApi)
    THEN ApiReplies
    ELSE {NoRequest}

\* one reply per query for which format_text_queries reaches the endpoint
RECURSIVE ReplySeqs(_, _)
ReplySeqs(queries, method) ==
    IF queries = <<>> THEN {<<>>}
    ELSE { <<r>> \o rest : r \in RepliesFor(Head(queries), method),
                           rest \in ReplySeqs(Tail(queries), method) }

(***************************************************************************)
(* State.                                                                  *)
(***************************************************************************)
VARIABLES
    pc,                    \* where the request stands
    text_queries,          \* the argument text_queries
    translation_method,    \* the argument translation_method
    confidence_threshold,  \* the argument confidence_threshold
    formatted_queries,     \* the local formatted_queries
    inputs,                \* the local inputs
    outputs,               \* the local outputs
    step,                  \* index into thresholds_to_try of the next threshold
    results,               \* the local results
    successful_threshold,  \* the local successful_threshold
    returned,              \* the value returned
    outcome,               \* how the request ended
    inferCalls,            \* calls of run_inference in this request
    ppLog,                 \* thresholds post-processed in this request, in order
    ppRaised,              \* some post-processing of this request raised
    translated,            \* terms handed to translate_japanese_to_english, in order
    requested,             \* terms sent to the translation endpoint, in order
    japanese_query,        \* the argument of a call of translate_japanese_to_english
    use_api,               \* its argument use_api
    api_reply,             \* the reply the endpoint gives if it is asked
    english_translation,   \* what the call returned
    variations,            \* the list a translator call returned
    labels,                \* the labels of the rendering step, one per box
    selected_model,        \* the model name of the sidebar or of the call
    cache_resource,        \* per model name, what st.cache_resource holds
    model,                 \* self.model of the OWLViTApp last made
    loadCalls,             \* per model name, executions of the loader's body
    nms_threshold,         \* the argument nms_threshold
    stages                 \* stages of an image-guided request called, in order

vars == << pc, text_queries, translation_method, confidence_threshold,
           formatted_queries, inputs, outputs, step, results,
           successful_threshold, returned, outcome, inferCalls, ppLog, ppRaised,
           translated, requested, japanese_query, use_api, api_reply,
           english_translation, variations, labels, selected_model, cache_resource,
           model, loadCalls, nms_threshold, stages >>

\* the state of a call of translate_japanese_to_english on its own
tvars == << japanese_query, use_api, api_reply, english_translation,
           variations >>

\* the state of the model loader
mvars == << selected_model, cache_resource, model, loadCalls >>

\* the state of an image-guided request
gvars == << nms_threshold, stages >>

\* ModelLoader.get_available_models
get_available_models ==
    << "google/owlvit-base-patch32", "google/owlvit-base-patch16",
       "google/owlvit-large-patch14" >>

\* ModelLoader.DEFAULT_MODEL_NAME
DEFAULT_MODEL_NAME == "google/owlvit-base-patch32"

ModelNames == {get_available_models[i] : i \in 1..Len(get_available_models)}

\* self.model and self.processor: None, or the pair loaded for a model name
NoneModel == [some |-> FALSE, name |-> ""]
SomeModel(name) == [some |-> TRUE, name |-> name]

\* initialize_model(DEFAULT_MODEL_NAME) has returned True on the OWLViTApp
ModelLoaded ==
    /\ selected_model = DEFAULT_MODEL_NAME
    /\ cache_resource = [n \in ModelNames |->
                            IF n = DEFAULT_MODEL_NAME THEN "loaded" ELSE "absent"]
    /\ model = SomeModel(DEFAULT_MODEL_NAME)
    /\ loadCalls = [n \in ModelNames |-> IF n = DEFAULT_MODEL_NAME THEN 1 ELSE 0]

\* no image-guided request is running
NoGuided ==
    /\ nms_threshold = 0
    /\ stages = <<>>

\* no call of translate_japanese_to_english on its own is under way
NoCall ==
    /\ japanese_query = <<>>
    /\ use_api = FALSE
    /\ api_reply = NoRequest
    /\ english_translation = NoneStr
    /\ variations = <<>>

\* no request is running: every local is fresh
Idle ==
    /\ pc = "idle"
    /\ text_queries = <<>>
    /\ translation_method = DictOnly
    /\ confidence_threshold = 0
    /\ formatted_queries = <<>>
    /\ inputs = NoneInputs
    /\ outputs = NoneBoxes
    /\ step = 1
    /\ results = NoneBoxes
    /\ successful_threshold = NoneThreshold
    /\ returned = ReturnNone
    /\ outcome = "pending"
    /\ inferCalls = 0
    /\ ppLog = <<>>
    /\ ppRaised = FALSE
    /\ translated = <<>>
    /\ requested = <<>>
    /\ NoCall
    /\ labels = <<>>
    /\ ModelLoaded
    /\ NoGuided

Init == Idle

\* run(): the button of the simple detection mode
SubmitSimple ==
    /\ UNCHANGED << translated, requested, tvars, labels, mvars, gvars >>
    /\ pc = "idle"
    /\ \E c \in ConfidenceValues :
          /\ text_queries' = basic_queries
          /\ translation_method' = DictOnly
          /\ confidence_threshold' = c
    /\ pc' = "format"
    /\ UNCHANGED << formatted_queries, inputs, outputs, step, results,
                    successful_threshold, returned, outcome, inferCalls,
                    ppLog, ppRaised >>

\* create_text_query_section, manual input: every field that is not blank
\* is kept, stripped, in the order of the fields
entered_queries(typed) ==
    SelectSeq([i \in 1..Len(typed) |-> Strip(typed[i])], LAMBDA query : query # <<>>)

\* run(): the button of the text-guided mode, reached with the query list
\* create_text_query_section made of what was typed and validated
SubmitTextGuided ==
    /\ UNCHANGED << translated, requested, tvars, labels, mvars, gvars >>
    /\ pc = "idle"
    /\ \E typed \in QueryLists, m \in {DictOnly, DictApi}, c \in ConfidenceValues :
          /\ entered_queries(typed) # <<>>
          /\ validate_text_queries(entered_queries(typed))
          /\ text_queries' = entered_queries(typed)
          /\ translation_method' = m
          /\ confidence_threshold' = c
    /\ pc' = "format"
    /\ UNCHANGED << formatted_queries, inputs, outputs, step, results,
                    successful_threshold, returned, outcome, inferCalls,
                    ppLog, ppRaised >>

\* formatted_queries = TextQueryProcessor.format_text_queries(...)
FormatQueries ==
    /\ pc = "format"
    /\ \E replies \in ReplySeqs(text_queries, translation_method) :
          formatted_queries' =
             format_text_queries(text_queries, translation_method, replies)
    /\ translated' = translated \o translated_terms(text_queries)
    /\ requested' = requested \o requested_terms(text_queries, translation_method)
    /\ pc' = "prepare"
    /\ UNCHANGED << text_queries, translation_method, confidence_threshold,
                    inputs, outputs, step, results, successful_threshold,
                    returned, outcome, inferCalls, ppLog, ppRaised, tvars,
                    labels, mvars, gvars >>

\* inputs = DetectionProcessor.prepare_inputs(...); if inputs is None: return None
PrepareInputs ==
    /\ UNCHANGED << translated, requested, tvars, labels, mvars, gvars >>
    /\ pc = "prepare"
    /\ \E processor_raises \in BOOLEAN :
          inputs' = prepare_inputs(formatted_queries, processor_raises)
    /\ IF inputs'.some
       THEN pc' = "infer" /\ UNCHANGED << returned, outcome >>
       ELSE pc' = "done" /\ returned' = ReturnNone /\ outcome' = "rejected"
    /\ UNCHANGED << text_queries, translation_method, confidence_threshold,
                    formatted_queries, outputs, step, results,
                    successful_threshold, inferCalls, ppLog, ppRaised >>

\* RunInference without the check of outputs: the request goes on to the
\* ladder after a failed inference
RunInferenceNoCheck ==
    /\ UNCHANGED << translated, requested, tvars, labels, mvars, gvars >>
    /\ pc = "infer"
    /\ inferCalls' = inferCalls + 1
    /\ \E model_raises \in BOOLEAN, model_output \in OutputsSet :
          /\ model_raises => model_output = <<<<>>>>
          /\ outputs' = run_inference(model_raises, model_output)
    /\ pc' = "ladder"
    /\ UNCHANGED << text_queries, translation_method, confidence_threshold,
                    formatted_queries, inputs, step, results,
                    successful_threshold, returned, outcome, ppLog, ppRaised >>

\* outputs = DetectionProcessor.run_inference(...); if outputs is None: return None
RunInference ==
    /\ UNCHANGED << translated, requested, tvars, labels, mvars, gvars >>
    /\ pc = "infer"
    /\ inferCalls' = inferCalls + 1
    /\ \E model_raises \in BOOLEAN, model_output \in OutputsSet :
          /\ model_raises => model_output = <<<<>>>>
          /\ outputs' = run_inference(model_raises, model_output)
    /\ IF outputs'.some
       THEN pc' = "ladder" /\ UNCHANGED << returned, outcome >>
       ELSE pc' = "done" /\ returned' = ReturnNone /\ outcome' = "inference failed"
    /\ UNCHANGED << text_queries, translation_method, confidence_threshold,
                    formatted_queries, inputs, step, results,
                    successful_threshold, ppLog, ppRaised >>

\* LadderStep without the break: a threshold that yields boxes is recorded
\* and the loop goes on to the next threshold
LadderStepNoBreak ==
    /\ UNCHANGED << translated, requested, tvars, labels, mvars, gvars >>
    /\ pc = "ladder"
    /\ LET ladder == thresholds_to_try(confidence_threshold)
           threshold == ladder[step]
       IN  /\ \E processor_raises \in BOOLEAN :
                 /\ results' = post_process_results(outputs, threshold, processor_raises)
                 /\ ppRaised' = (ppRaised \/ processor_raises)
           /\ ppLog' = Append(ppLog, threshold)
           /\ successful_threshold' =
                 IF HasBoxes(results') THEN SomeThreshold(threshold)
                 ELSE successful_threshold
           /\ pc' = IF step = Len(ladder) THEN "finish" ELSE "ladder"
           /\ step' = step + 1
    /\ UNCHANGED << text_queries, translation_method, confidence_threshold,
                    formatted_queries, inputs, outputs, returned, outcome,
                    inferCalls >>

\* LadderStep with the inference inside the loop: every pass calls
\* run_inference again
LadderStepReinfer ==
    /\ UNCHANGED << translated, requested, tvars, labels, mvars, gvars >>
    /\ pc = "ladder"
    /\ LET ladder == thresholds_to_try(confidence_threshold)
           threshold == ladder[step]
       IN  /\ \E processor_raises \in BOOLEAN :
                 /\ results' = post_process_results(outputs, threshold, processor_raises)
                 /\ ppRaised' = (ppRaised \/ processor_raises)
           /\ ppLog' = Append(ppLog, threshold)
           /\ IF HasBoxes(results')
              THEN /\ successful_threshold' = SomeThreshold(threshold)
                   /\ pc' = "finish"
                   /\ step' = step
              ELSE /\ successful_threshold' = successful_threshold
                   /\ pc' = IF step = Len(ladder) THEN "finish" ELSE "ladder"
                   /\ step' = step + 1
    /\ inferCalls' = inferCalls + 1
    /\ UNCHANGED << text_queries, translation_method, confidence_threshold,
                    formatted_queries, inputs, outputs, returned, outcome >>

\* one pass of the loop over thresholds_to_try
LadderStep ==
    /\ UNCHANGED << translated, requested, tvars, labels, mvars, gvars >>
    /\ pc = "ladder"
    /\ LET ladder == thresholds_to_try(confidence_threshold)
           threshold == ladder[step]
       IN  /\ \E processor_raises \in BOOLEAN :
                 /\ results' = post_process_results(outputs, threshold, processor_raises)
                 /\ ppRaised' = (ppRaised \/ processor_raises)
           /\ ppLog' = Append(ppLog, threshold)
           /\ IF HasBoxes(results')
              THEN /\ successful_threshold' = SomeThreshold(threshold)
                   /\ pc' = "finish"
                   /\ step' = step
              ELSE /\ successful_threshold' = successful_threshold
                   /\ pc' = IF step = Len(ladder) THEN "finish" ELSE "ladder"
                   /\ step' = step + 1
    /\ UNCHANGED << text_queries, translation_method, confidence_threshold,
                    formatted_queries, inputs, outputs, returned, outcome,
                    inferCalls >>

\* after the loop: the empty-result report, or the display of the results,
\* the labels and the rendering of the first entry; an exception of the
\* display or of the rendering (cv2.cvtColor on an image that is not RGB)
\* ends in the except branch
Finish ==
    /\ UNCHANGED << tvars, mvars, gvars >>
    /\ pc = "finish"
    /\ IF HasBoxes(results) /\ ~DisplayRaises(results, text_queries)
       THEN /\ labels' = box_labels(results.val[1], text_queries)
            /\ translated' = translated \o label_terms(results.val[1], text_queries)
            /\ requested' = requested \o label_requests(results.val[1], text_queries)
       ELSE UNCHANGED << labels, translated, requested >>
    /\ \E render_raises \in BOOLEAN :
          IF ~HasBoxes(results)
          THEN ~render_raises /\ returned' = ReturnNone /\ outcome' = "empty"
          ELSE IF DisplayRaises(results, text_queries)
          THEN ~render_raises /\ returned' = ReturnNone /\ outcome' = "error"
          ELSE IF Len(results.val[1]) = 0
          THEN ~render_raises /\ returned' = ReturnNone /\ outcome' = "no boxes"
          ELSE IF render_raises
          THEN returned' = ReturnNone /\ outcome' = "error"
          ELSE /\ returned' = ReturnImage(DrawnBoxes(results.val[1], confidence_threshold))
               /\ outcome' = "image"
    /\ pc' = "done"
    /\ UNCHANGED << text_queries, translation_method, confidence_threshold,
                    formatted_queries, inputs, outputs, step, results,
                    successful_threshold, inferCalls, ppLog, ppRaised >>

\* the values of the NMS slider used: 0.0, 0.3 (the default) and 1.0
NmsValues == {k * SliderStep : k \in {0, 6, SliderSteps}}

\* "similar object"
SimilarObject ==
    <<115, 105, 109, 105, 108, 97, 114, 32, 111, 98, 106, 101, 99, 116>>

\* what processor.post_process_image_guided_detection may return: a list of
\* entries, possibly empty
GuidedResults == OutputsSet \cup {<<>>}

\* run(): the button of the image-guided mode
SubmitImageGuided ==
    /\ UNCHANGED << translated, requested, tvars, labels, mvars >>
    /\ pc = "idle"
    /\ \E c \in ConfidenceValues, n \in NmsValues :
          /\ confidence_threshold' = c
          /\ nms_threshold' = n
    /\ pc' = "gprepare"
    /\ UNCHANGED << text_queries, translation_method, formatted_queries,
                    inputs, outputs, step, results, successful_threshold,
                    returned, outcome, inferCalls, ppLog, ppRaised, stages >>

\* PrepareGuided without the check of inputs: the request goes on to the
\* inference after a failed preparation
PrepareGuidedNoCheck ==
    /\ UNCHANGED << translated, requested, tvars, labels, mvars >>
    /\ pc = "gprepare"
    /\ stages' = Append(stages, <<"prepare">>)
    /\ \E processor_raises \in BOOLEAN :
          inputs' = [some |-> ~processor_raises, text |-> <<>>]
    /\ pc' = "ginfer"
    /\ UNCHANGED << text_queries, translation_method, confidence_threshold,
                    formatted_queries, outputs, step, results,
                    successful_threshold, returned, outcome, inferCalls,
                    ppLog, ppRaised, nms_threshold >>

\* inputs = prepare_image_guided_inputs(...); if inputs is None: return None
PrepareGuided ==
    /\ UNCHANGED << translated, requested, tvars, labels, mvars >>
    /\ pc = "gprepare"
    /\ stages' = Append(stages, <<"prepare">>)
    /\ \E processor_raises \in BOOLEAN :
          inputs' = [some |-> ~processor_raises, text |-> <<>>]
    /\ IF inputs'.some
       THEN pc' = "ginfer" /\ UNCHANGED << returned, outcome >>
       ELSE pc' = "gdone" /\ returned' = ReturnNone /\ outcome' = "rejected"
    /\ UNCHANGED << text_queries, translation_method, confidence_threshold,
                    formatted_queries, outputs, step, results,
                    successful_threshold, inferCalls, ppLog, ppRaised,
                    nms_threshold >>

\* outputs = run_image_guided_inference(...); if outputs is None: return None
InferGuided ==
    /\ UNCHANGED << translated, requested, tvars, labels, mvars >>
    /\ pc = "ginfer"
    /\ stages' = Append(stages, <<"infer">>)
    /\ \E model_raises \in BOOLEAN :
          outputs' = IF model_raises THEN NoneBoxes ELSE SomeBoxes(<<>>)
    /\ IF outputs'.some
       THEN pc' = "gpost" /\ UNCHANGED << returned, outcome >>
       ELSE pc' = "gdone" /\ returned' = ReturnNone /\ outcome' = "inference failed"
    /\ UNCHANGED << text_queries, translation_method, confidence_threshold,
                    formatted_queries, inputs, step, results,
                    successful_threshold, inferCalls, ppLog, ppRaised,
                    nms_threshold >>

\* results = post_process_image_guided_results(processor, outputs,
\* target_sizes, confidence_threshold, nms_threshold); if results is None:
\* return None
PostProcessGuided ==
    /\ UNCHANGED << translated, requested, tvars, labels, mvars >>
    /\ pc = "gpost"
    /\ stages' = Append(stages, <<"post", confidence_threshold, nms_threshold>>)
    /\ \E processor_raises \in BOOLEAN, entries \in GuidedResults :
          /\ processor_raises => entries = <<>>
          /\ results' = IF processor_raises THEN NoneBoxes ELSE SomeBoxes(entries)
    /\ IF results'.some
       THEN pc' = "gfinish" /\ UNCHANGED << returned, outcome >>
       ELSE pc' = "gdone" /\ returned' = ReturnNone /\ outcome' = "post-processing failed"
    /\ UNCHANGED << text_queries, translation_method, confidence_threshold,
                    formatted_queries, inputs, outputs, step,
                    successful_threshold, inferCalls, ppLog, ppRaised,
                    nms_threshold >>

\* the display of the results and the rendering of the first entry with the
\* label "similar object" on every box; an exception of the rendering ends
\* in the except branch
FinishGuided ==
    /\ UNCHANGED << translated, requested, tvars, mvars >>
    /\ pc = "gfinish"
    /\ \E render_raises \in BOOLEAN :
          IF Len(results.val) = 0
          THEN /\ ~render_raises
               /\ returned' = ReturnNone /\ outcome' = "empty"
               /\ labels' = labels
          ELSE /\ labels' = [i \in 1..Len(results.val[1]) |-> SimilarObject]
               /\ IF render_raises
                  THEN returned' = ReturnNone /\ outcome' = "error"
                  ELSE /\ returned' = ReturnImage(DrawnBoxes(results.val[1],
                                                             confidence_threshold))
                       /\ outcome' = "image"
    /\ pc' = "gdone"
    /\ UNCHANGED << text_queries, translation_method, confidence_threshold,
                    formatted_queries, inputs, outputs, step, results,
                    successful_threshold, inferCalls, ppLog, ppRaised,
                    nms_threshold, stages >>

\* what a call of load_model_and_processor leaves in the cache of
\* st.cache_resource for the model name: a stored value is kept; otherwise
\* the body runs and its return value is stored, the pair (model, processor)
\* or, from the except branch, (None, None)
load_model_and_processor(held, from_pretrained_raises) ==
    IF held # "absent" THEN held
    ELSE IF from_pretrained_raises THEN "failed"
    ELSE "loaded"

\* the call has returned to its caller: the next call on the same OWLViTApp
\* starts with fresh locals and finds the model the object holds
NextCall ==
    /\ pc \in {"done", "gdone"}
    /\ pc' = "idle"
    /\ text_queries' = <<>>
    /\ translation_method' = DictOnly
    /\ confidence_threshold' = 0
    /\ formatted_queries' = <<>>
    /\ inputs' = NoneInputs
    /\ outputs' = NoneBoxes
    /\ step' = 1
    /\ results' = NoneBoxes
    /\ successful_threshold' = NoneThreshold
    /\ returned' = ReturnNone
    /\ outcome' = "pending"
    /\ inferCalls' = 0
    /\ ppLog' = <<>>
    /\ ppRaised' = FALSE
    /\ translated' = <<>>
    /\ requested' = <<>>
    /\ labels' = <<>>
    /\ nms_threshold' = 0
    /\ stages' = <<>>
    /\ UNCHANGED << tvars, mvars >>

\* main(): a script run makes a new OWLViTApp (self.model = None), draws the
\* sidebar and ends at the call of SidebarManager.create_visualization_options
\* (app.py:310), an attribute the class does not have: the AttributeError
\* leaves run() before initialize_model is called, so nothing is loaded and
\* no button is read
ScriptRun ==
    /\ pc \in {"idle", "done", "gdone", "stopped", "new", "ready", "failed"}
    /\ pc' = "stopped"
    /\ model' = NoneModel
    /\ selected_model' \in ModelNames
    /\ UNCHANGED << cache_resource, loadCalls >>
    /\ text_queries' = <<>>
    /\ translation_method' = DictOnly
    /\ confidence_threshold' = 0
    /\ formatted_queries' = <<>>
    /\ inputs' = NoneInputs
    /\ outputs' = NoneBoxes
    /\ step' = 1
    /\ results' = NoneBoxes
    /\ successful_threshold' = NoneThreshold
    /\ returned' = ReturnNone
    /\ outcome' = "pending"
    /\ inferCalls' = 0
    /\ ppLog' = <<>>
    /\ ppRaised' = FALSE
    /\ translated' = <<>>
    /\ requested' = <<>>
    /\ labels' = <<>>
    /\ nms_threshold' = 0
    /\ stages' = <<>>
    /\ UNCHANGED tvars

Next ==
    \/ SubmitSimple
    \/ SubmitTextGuided
    \/ SubmitImageGuided
    \/ FormatQueries
    \/ PrepareInputs
    \/ RunInference
    \/ LadderStep
    \/ Finish
    \/ PrepareGuided
    \/ InferGuided
    \/ PostProcessGuided
    \/ FinishGuided
    \/ NextCall
    \/ ScriptRun

Spec == Init /\ [][Next]_vars

\* One request of the simple detection mode, for every position of the
\* slider used and every inference output, from the call of
\* format_text_queries to its end.
InitRequest ==
    /\ pc = "format"
    /\ text_queries = basic_queries
    /\ translation_method = DictOnly
    /\ confidence_threshold \in ConfidenceValues
    /\ formatted_queries = <<>>
    /\ inputs = NoneInputs
    /\ outputs = NoneBoxes
    /\ step = 1
    /\ results = NoneBoxes
    /\ successful_threshold = NoneThreshold
    /\ returned = ReturnNone
    /\ outcome = "pending"
    /\ inferCalls = 0
    /\ ppLog = <<>>
    /\ ppRaised = FALSE
    /\ translated = <<>>
    /\ requested = <<>>
    /\ NoCall
    /\ labels = <<>>
    /\ ModelLoaded
    /\ NoGuided

NextRequest ==
    \/ FormatQueries
    \/ PrepareInputs
    \/ RunInference
    \/ LadderStep
    \/ Finish

\* The handler of a button press runs synchronously to its end: every step
\* of a request that can be taken is taken.
SpecFair ==
    /\ InitRequest
    /\ [][NextRequest]_vars
    /\ WF_vars(FormatQueries)
    /\ WF_vars(PrepareInputs)
    /\ WF_vars(RunInference)
    /\ WF_vars(LadderStep)
    /\ WF_vars(Finish)

(***************************************************************************)
(* prepare_inputs on prompt sets of any shape: the request is taken up at  *)
(* the call of prepare_inputs with a prompt set that need not come from    *)
(* format_text_queries.                                                    *)
(***************************************************************************)
\* a value that is no string, such as None
NoneItem == [str |-> FALSE, val |-> <<>>]

\* an entry that is a bare string instead of a list
BareString(s) == [list |-> FALSE, items |-> <<StrItem(s)>>]

\* a string of n letters "a"
Letters(n) == [i \in 1..n |-> 97]

\* entries of a prompt set: ["a photo of a cat"], [""], [], "cat", [None]
\* and a list of one string of 101 characters
PromptEntries ==
    { ListOf(<<StrItem(PromptPrefix \o <<99, 97, 116>>)>>),
      ListOf(<<StrItem(<<>>)>>),
      ListOf(<<>>),
      BareString(<<99, 97, 116>>),
      ListOf(<<NoneItem>>),
      ListOf(<<StrItem(Letters(MaxPromptLen + 1))>>) }

PromptSets == UNION {[1..n -> PromptEntries] : n \in 0..MaxPromptSet}

InitPrepare ==
    /\ pc = "prepare"
    /\ text_queries = basic_queries
    /\ translation_method = DictOnly
    /\ confidence_threshold = 2 * SliderStep
    /\ formatted_queries \in PromptSets
    /\ inputs = NoneInputs
    /\ outputs = NoneBoxes
    /\ step = 1
    /\ results = NoneBoxes
    /\ successful_threshold = NoneThreshold
    /\ returned = ReturnNone
    /\ outcome = "pending"
    /\ inferCalls = 0
    /\ ppLog = <<>>
    /\ ppRaised = FALSE
    /\ translated = <<>>
    /\ requested = <<>>
    /\ NoCall
    /\ labels = <<>>
    /\ ModelLoaded
    /\ NoGuided

\* the request taken up at prepare_inputs runs to its end
NextPrepare ==
    \/ PrepareInputs
    \/ RunInference
    \/ LadderStep
    \/ Finish

SpecPrepare == InitPrepare /\ [][NextPrepare]_vars

(***************************************************************************)
(* translate_japanese_to_english on its own: a call with a term, a value   *)
(* of use_api and the reply the endpoint gives if the call asks it.        *)
(***************************************************************************)
\* terms handed to the translator.  Keys of the table: neko, terebi no
\* rimokon, terebirimokon, "TV".  Terms that hold keys: inu to neko (two keys
\* of length one), ano terebi no rimokon, terebidai, rimokonterebi.  Terms
\* that hold no key: zou, "zebra".  Further keys and terms: tori, kirin
\* in hiragana (holds the key ki), hondana, "cats", "a cat".
Terms ==
    { <<29483>>,
      <<12486, 12524, 12499, 12398, 12522, 12514, 12467, 12531>>,
      <<12486, 12524, 12499, 12522, 12514, 12467, 12531>>,
      <<84, 86>>,
      <<29356, 12392, 29483>>,
      <<12354, 12398, 12486, 12524, 12499, 12398, 12522, 12514, 12467, 12531>>,
      <<12486, 12524, 12499, 21488>>,
      <<12522, 12514, 12467, 12531, 12486, 12524, 12499>>,
      <<12478, 12454>>,
      <<122, 101, 98, 114, 97>>,
      <<40165>>,
      <<12365, 12426, 12435>>,
      <<26412, 26842>>,
      <<99, 97, 116, 115>>,
      <<97, 32, 99, 97, 116>> }

InitTranslate ==
    /\ pc = "translate"
    /\ japanese_query \in Terms
    /\ use_api \in BOOLEAN
    /\ api_reply \in ApiReplies
    /\ english_translation = NoneStr
    /\ variations = <<>>
    /\ translated = <<>>
    /\ requested = <<>>
    /\ text_queries = <<>>
    /\ translation_method = DictOnly
    /\ confidence_threshold = 0
    /\ formatted_queries = <<>>
    /\ inputs = NoneInputs
    /\ outputs = NoneBoxes
    /\ step = 1
    /\ results = NoneBoxes
    /\ successful_threshold = NoneThreshold
    /\ returned = ReturnNone
    /\ outcome = "pending"
    /\ inferCalls = 0
    /\ ppLog = <<>>
    /\ ppRaised = FALSE
    /\ labels = <<>>
    /\ ModelLoaded
    /\ NoGuided

\* english = JapaneseTranslator.translate_japanese_to_english(term, use_api)
Translate ==
    /\ pc = "translate"
    /\ english_translation' =
          SomeStr(translate_japanese_to_english(japanese_query, use_api, api_reply))
    /\ translated' = Append(translated, japanese_query)
    /\ requested' = IF NeedsApi(japanese_query, use_api)
                    THEN Append(requested, japanese_query)
                    ELSE requested
    /\ pc' = "translated"
    /\ UNCHANGED << text_queries, translation_method, confidence_threshold,
                    formatted_queries, inputs, outputs, step, results,
                    successful_threshold, returned, outcome, inferCalls,
                    ppLog, ppRaised, japanese_query, use_api, api_reply,
                    variations, labels, mvars, gvars >>

\* what a translator call leaves alone besides its own result
TranslatorFrame ==
    UNCHANGED << text_queries, translation_method, confidence_threshold,
                 formatted_queries, inputs, outputs, step, results,
                 successful_threshold, returned, outcome, inferCalls,
                 ppLog, ppRaised, japanese_query, use_api, api_reply,
                 english_translation, labels, mvars, gvars >>

\* translations = JapaneseTranslator.translate_with_multiple_methods(term):
\* the dictionary is consulted and the endpoint is asked, whatever the
\* dictionary gave
TranslateWithMultipleMethods ==
    /\ pc = "translate"
    /\ variations' = translate_with_multiple_methods(japanese_query, api_reply)
    /\ translated' = Append(translated, japanese_query)
    /\ requested' = Append(requested, japanese_query)
    /\ pc' = "listed"
    /\ TranslatorFrame

\* variations = JapaneseTranslator.get_multiple_query_variations(term, use_api)
GetMultipleQueryVariations ==
    /\ pc = "translate"
    /\ variations' = get_multiple_query_variations(japanese_query, use_api, api_reply)
    /\ translated' = IF is_japanese(japanese_query)
                     THEN Append(translated, japanese_query)
                     ELSE translated
    /\ requested' = IF is_japanese(japanese_query) /\ use_api
                    THEN Append(requested, japanese_query)
                    ELSE requested
    /\ pc' = "varied"
    /\ TranslatorFrame

NextTranslate ==
    \/ Translate
    \/ TranslateWithMultipleMethods
    \/ GetMultipleQueryVariations

SpecTranslate == InitTranslate /\ [][NextTranslate]_vars

(***************************************************************************)
(* format_text_queries on query lists of any kind: the request is taken up *)
(* at the call of format_text_queries with a list that need not have       *)
(* passed validate_text_queries, and followed through prepare_inputs.      *)
(***************************************************************************)
\* strings used in the query lists
Person == <<112, 101, 114, 115, 111, 110>>
Car == <<99, 97, 114>>
Dog == <<100, 111, 103>>
Cat == <<99, 97, 116>>
Zebra == <<122, 101, 98, 114, 97>>
Tv == <<84, 86>>
Neko == <<29483>>
Zou == <<12478, 12454>>
TerebiNoRimokon == <<12486, 12524, 12499, 12398, 12522, 12514, 12467, 12531>>
TerebiRimokon == <<12486, 12524, 12499, 12522, 12514, 12467, 12531>>

\* n times the code point c
Repeat(c, n) == [i \in 1..n |-> c]

\* the letters a..z in a cycle, n of them
Alphabet(n) == [i \in 1..n |-> 97 + ((i - 1) % 26)]

\* The query lists handed to format_text_queries:
\*   the empty list;
\*   six and seven queries, Latin and Japanese, zou among them;
\*   a query twice; neko next to "cat"; two keys of the same translation;
\*   two spaces before 52 letters; 50 times zo before neko; 50 letters
\*   before neko;
\*   "TV" before an ideographic space (U+3000); 49 letters before three
\*   spaces; two spaces next to "caf" and e acute (U+00E9); "ca" before
\*   the code point 127 next to "ca" before the code point 128; zou alone.
FormatQueryLists ==
    { <<>>,
      << Person, Car, Neko, Tv, Zou, Dog >>,
      << Person, Car, Dog, Tv, Neko, Zou, Zebra >>,
      << Cat, Cat >>,
      << Neko, Cat >>,
      << TerebiNoRimokon, TerebiRimokon >>,
      << <<32, 32>> \o Alphabet(MaxQueryLen + 2) >>,
      << Repeat(12478, MaxQueryLen) \o Neko >>,
      << Alphabet(MaxQueryLen) \o Neko >>,
      << Tv \o <<12288>> >>,
      << Alphabet(MaxQueryLen - 1) \o <<32, 32, 32>> >>,
      << <<32, 32>>, <<99, 97, 102, 233>> >>,
      << <<99, 97, 127>>, <<99, 97, 128>> >>,
      << Zou >> }

InitFormat ==
    /\ pc = "format"
    /\ text_queries \in FormatQueryLists
    /\ translation_method \in {DictOnly, DictApi}
    /\ confidence_threshold \in ConfidenceValues
    /\ formatted_queries = <<>>
    /\ inputs = NoneInputs
    /\ outputs = NoneBoxes
    /\ step = 1
    /\ results = NoneBoxes
    /\ successful_threshold = NoneThreshold
    /\ returned = ReturnNone
    /\ outcome = "pending"
    /\ inferCalls = 0
    /\ ppLog = <<>>
    /\ ppRaised = FALSE
    /\ translated = <<>>
    /\ requested = <<>>
    /\ NoCall
    /\ labels = <<>>
    /\ ModelLoaded
    /\ NoGuided

\* the request from format_text_queries to the return of prepare_inputs
NextFormat ==
    \/ FormatQueries
    \/ PrepareInputs

SpecFormat == InitFormat /\ [][NextFormat]_vars

\* the locals of a request are fresh
FreshRequest ==
    /\ text_queries = <<>>
    /\ translation_method = DictOnly
    /\ confidence_threshold = 0
    /\ formatted_queries = <<>>
    /\ inputs = NoneInputs
    /\ outputs = NoneBoxes
    /\ step = 1
    /\ results = NoneBoxes
    /\ successful_threshold = NoneThreshold
    /\ returned = ReturnNone
    /\ outcome = "pending"
    /\ inferCalls = 0
    /\ ppLog = <<>>
    /\ ppRaised = FALSE
    /\ translated = <<>>
    /\ requested = <<>>
    /\ NoCall
    /\ labels = <<>>

(***************************************************************************)
(* The loading of the model in one process: script runs of main(), each    *)
(* with the model name chosen in the sidebar, and calls of initialize_model *)
(* on an OWLViTApp, from the first script run on.                          *)
(***************************************************************************)
\* the first script run of a new server has ended at app.py:310: nothing is
\* loaded, the cache of st.cache_resource is empty
InitLoad ==
    /\ pc = "stopped"
    /\ selected_model \in ModelNames
    /\ cache_resource = [n \in ModelNames |-> "absent"]
    /\ model = NoneModel
    /\ loadCalls = [n \in ModelNames |-> 0]
    /\ FreshRequest
    /\ NoGuided

\* app = OWLViTApp(): self.model = None, self.processor = None
NewApp ==
    /\ pc \in {"stopped", "new", "ready", "failed"}
    /\ pc' = "new"
    /\ model' = NoneModel
    /\ UNCHANGED << text_queries, translation_method, confidence_threshold,
                    formatted_queries, inputs, outputs, step, results,
                    successful_threshold, returned, outcome, inferCalls,
                    ppLog, ppRaised, translated, requested, tvars, labels,
                    selected_model, cache_resource, loadCalls, gvars >>

\* app.initialize_model(model_name): the loader is called, through the cache,
\* only while the object holds no model; True iff it holds one afterwards
InitializeModel ==
    /\ pc \in {"new", "ready", "failed"}
    /\ \E model_name \in ModelNames, from_pretrained_raises \in BOOLEAN :
          LET held == cache_resource[model_name]
              now == load_model_and_processor(held, from_pretrained_raises)
          IN  /\ selected_model' = model_name
              /\ IF model.some
                 THEN /\ ~from_pretrained_raises
                      /\ UNCHANGED << cache_resource, loadCalls, model >>
                      /\ pc' = "ready"
                 ELSE /\ held # "absent" => ~from_pretrained_raises
                      /\ cache_resource' = [cache_resource EXCEPT ![model_name] = now]
                      /\ loadCalls' = [loadCalls EXCEPT ![model_name] =
                                          IF held = "absent" THEN @ + 1 ELSE @]
                      /\ model' = IF now = "loaded" THEN SomeModel(model_name)
                                  ELSE NoneModel
                      /\ pc' = IF now = "loaded" THEN "ready" ELSE "failed"
    /\ UNCHANGED << text_queries, translation_method, confidence_threshold,
                    formatted_queries, inputs, outputs, step, results,
                    successful_threshold, returned, outcome, inferCalls,
                    ppLog, ppRaised, translated, requested, tvars, labels,
                    gvars >>

NextLoad ==
    \/ NewApp
    \/ InitializeModel
    \/ ScriptRun

SpecLoad == InitLoad /\ [][NextLoad]_vars

(***************************************************************************)
(* One image-guided request, for every position of the two sliders used.   *)
(***************************************************************************)
InitGuided ==
    /\ pc = "gprepare"
    /\ text_queries = <<>>
    /\ translation_method = DictOnly
    /\ confidence_threshold \in ConfidenceValues
    /\ nms_threshold \in NmsValues
    /\ stages = <<>>
    /\ formatted_queries = <<>>
    /\ inputs = NoneInputs
    /\ outputs = NoneBoxes
    /\ step = 1
    /\ results = NoneBoxes
    /\ successful_threshold = NoneThreshold
    /\ returned = ReturnNone
    /\ outcome = "pending"
    /\ inferCalls = 0
    /\ ppLog = <<>>
    /\ ppRaised = FALSE
    /\ translated = <<>>
    /\ requested = <<>>
    /\ NoCall
    /\ labels = <<>>
    /\ ModelLoaded

NextGuided ==
    \/ PrepareGuided
    \/ InferGuided
    \/ PostProcessGuided
    \/ FinishGuided

SpecGuided == InitGuided /\ [][NextGuided]_vars

(***************************************************************************)
(* validate_text_queries on query lists of any content.                    *)
(***************************************************************************)
\* queries a list may hold: the empty string, a space, "a", " a ", neko,
\* "ab", " ab ", terebi and sixty letters
ValidatedQueries ==
    { <<>>, <<32>>, <<97>>, <<32, 97, 32>>, Neko, <<97, 98>>,
      <<32, 97, 98, 32>>, <<12486, 12524, 12499>>, Alphabet(MaxQueryLen + 10) }

ValidatedLists == UNION {[1..n -> ValidatedQueries] : n \in 0..MaxValidated}

InitValidate ==
    /\ pc = "validate"
    /\ text_queries \in ValidatedLists
    /\ translation_method = DictOnly
    /\ confidence_threshold = 0
    /\ formatted_queries = <<>>
    /\ inputs = NoneInputs
    /\ outputs = NoneBoxes
    /\ step = 1
    /\ results = NoneBoxes
    /\ successful_threshold = NoneThreshold
    /\ returned = ReturnNone
    /\ outcome = "pending"
    /\ inferCalls = 0
    /\ ppLog = <<>>
    /\ ppRaised = FALSE
    /\ translated = <<>>
    /\ requested = <<>>
    /\ NoCall
    /\ labels = <<>>
    /\ ModelLoaded
    /\ NoGuided

\* if TextQueryProcessor.validate_text_queries(text_queries): return
\* text_queries, translation_method; else: return None
Validate ==
    /\ pc = "validate"
    /\ outcome' = IF validate_text_queries(text_queries) THEN "valid" ELSE "invalid"
    /\ pc' = "validated"
    /\ UNCHANGED << text_queries, translation_method, confidence_threshold,
                    formatted_queries, inputs, outputs, step, results,
                    successful_threshold, returned, inferCalls, ppLog,
                    ppRaised, translated, requested, tvars, labels, mvars,
                    gvars >>

NextValidate == Validate

SpecValidate == InitValidate /\ [][NextValidate]_vars

(***************************************************************************)
(* Properties.                                                             *)
(***************************************************************************)
\* some entry of a post-processing result holds a box
AnyBox(res) == res.some /\ \E i \in DOMAIN res.val : res.val[i] # <<>>

\* the last threshold that was post-processed
LastTried == ppLog[Len(ppLog)]

\* C1: the thresholds are post-processed in the order of the list; while the
\* loop runs no threshold tried so far has yielded a box; the loop stops at
\* the first threshold that yields a box in any entry, which becomes
\* successful_threshold, and nothing is post-processed after it; when the
\* whole list yields no box the request ends with the empty-result outcome.
C1_LadderInOrderFirstHitWins ==
    /\ ppLog = SubSeq(thresholds_to_try(confidence_threshold), 1, Len(ppLog))
    /\ pc = "ladder" =>
          /\ step = Len(ppLog) + 1
          /\ ~AnyBox(results)
          /\ ~successful_threshold.some
    /\ (pc \in {"finish", "done"} /\ outputs.some) =>
          IF AnyBox(results)
          THEN successful_threshold = SomeThreshold(LastTried)
          ELSE /\ ~successful_threshold.some
               /\ Len(ppLog) = Len(thresholds_to_try(confidence_threshold))
    /\ (pc = "done" /\ outputs.some /\ ~successful_threshold.some) =>
          (outcome = "empty" /\ returned = ReturnNone)

\* C1 witness: a finished request whose ladder stopped at a threshold after
\* the first and before the last, with the box in the second entry only
C1_Witness ==
    /\ pc = "done"
    /\ successful_threshold.some
    /\ Len(ppLog) \in 2..5
    /\ Len(results.val) = 2
    /\ results.val[1] = <<>>

\* the boxes of entry that score above threshold t
Above(entry, t) == SelectSeq(entry, LAMBDA b : b.score > t)

\* C2: run_inference is called at most once in a request and before any
\* post-processing; every result of the ladder is a filter of that one
\* inference output.
C2_InferenceOnce ==
    /\ inferCalls <= 1
    /\ pc \in {"idle", "format", "prepare", "infer"} => (inferCalls = 0 /\ ppLog = <<>>)
    /\ ppLog # <<>> => (inferCalls = 1 /\ outputs.some)
    /\ (ppLog # <<>> /\ results.some) =>
          results.val = [i \in DOMAIN outputs.val |-> Above(outputs.val[i], LastTried)]

\* C2 witness: a finished request that post-processed all seven thresholds
\* after its single inference
C2_Witness ==
    /\ pc = "done"
    /\ inferCalls = 1
    /\ Len(ppLog) = 7

\* a sequence of thresholds never rises from one element to the next
NonIncreasing(ladder) == \A i \in 1..(Len(ladder) - 1) : ladder[i + 1] <= ladder[i]

\* a sequence of thresholds falls from each element to the next
StrictlyDecreasing(ladder) == \A i \in 1..(Len(ladder) - 1) : ladder[i + 1] < ladder[i]

\* C3: the ladder built for the base threshold of the request starts at the
\* base threshold and never rises from one threshold to the next.
C3_LadderNonIncreasing ==
    pc = "ladder" =>
       /\ thresholds_to_try(confidence_threshold)[1] = confidence_threshold
       /\ NonIncreasing(thresholds_to_try(confidence_threshold))

\* C4: the ladder built for the base threshold of the request is strictly
\* decreasing, so that no threshold value is tried twice.
C4_LadderStrictlyDecreasing ==
    pc = "ladder" => StrictlyDecreasing(thresholds_to_try(confidence_threshold))

\* base threshold 0.5 and an inference output of one box that scores 0.09
SingleBoxScenario ==
    /\ confidence_threshold = 500000
    /\ outputs = SomeBoxes(<< << [score |-> 90000, label |-> 1] >> >>)

\* C5 as stated: in the single-box scenario, with a post-processing that
\* works, the request succeeds, not at 0.5 or 0.35 but at a threshold of at
\* most 0.1, and the successful_threshold is 0.1 to within 0.01.
C5_SuccessNearTenth ==
    (pc = "done" /\ SingleBoxScenario /\ ~ppRaised) =>
       /\ successful_threshold.some
       /\ successful_threshold.val \notin {500000, 350000}
       /\ successful_threshold.val <= 100000
       /\ successful_threshold.val >= 90000

\* C5 amended: in the single-box scenario, with a post-processing that works,
\* the thresholds 0.5, 0.35, 0.25 and 0.15 yield nothing and the request
\* succeeds at the fifth threshold, 0.05, which is the successful_threshold;
\* whatever post-processing does, a success is recorded at 0.05 or 0.01 only.
C5_SuccessAtTwentieth ==
    /\ (pc \in {"finish", "done"} /\ SingleBoxScenario /\ ~ppRaised) =>
          /\ successful_threshold = SomeThreshold(50000)
          /\ ppLog = <<500000, 350000, 250000, 150000, 50000>>
    /\ (SingleBoxScenario /\ successful_threshold.some) =>
          successful_threshold.val \in {50000, 10000}

\* C5 witness: the single-box request has finished with a success and no
\* failure of post-processing
C5_Witness ==
    /\ pc = "done"
    /\ SingleBoxScenario
    /\ ~ppRaised
    /\ successful_threshold.some

\* no box of the inference output scores above 0.01
NoBoxAboveFloor ==
    /\ outputs.some
    /\ \A i \in DOMAIN outputs.val :
          \A j \in DOMAIN outputs.val[i] : outputs.val[i][j].score <= 10000

\* C6: a request whose inference output has no box scoring above 0.01 ends
\* with the empty-result outcome and returns None.
C6_EmptyResultBelowFloor ==
    (pc = "done" /\ NoBoxAboveFloor) => (outcome = "empty" /\ returned = ReturnNone)

\* C7, for an inference output of one entry and a post-processing that
\* works: when the base threshold yields no box and a later threshold
\* succeeds, the request returns an image on which every box found at the
\* successful threshold is drawn.
C7_RecoveredBoxesDrawn ==
    (/\ pc = "done"
     /\ outputs.some
     /\ Len(outputs.val) = 1
     /\ ~ppRaised
     /\ successful_threshold.some
     /\ Len(ppLog) > 1
     /\ outcome # "error") =>
       /\ returned.image
       /\ returned.drawn = results.val[1]

\* C8: once a post-processing has raised, the request post-processes no
\* further threshold and does not end with the empty-result outcome.
C8_PostProcessFailureAborts ==
    [][(ppRaised /\ pc # "done") => (ppLog' = ppLog /\ outcome' # "empty")]_vars

\* run_inference was called and returned None
InferenceFailed == inferCalls > 0 /\ ~outputs.some

\* C9: when the model raises, the request is over: run_inference was called
\* once, nothing was post-processed or rendered, and None is returned through
\* the ordinary return, not the except branch.
C9_InferenceFailureAborts ==
    InferenceFailed =>
       /\ pc = "done"
       /\ inferCalls = 1
       /\ ppLog = <<>>
       /\ results = NoneBoxes
       /\ ~successful_threshold.some
       /\ returned = ReturnNone
       /\ outcome = "inference failed"

\* C9 witness: a request ended by a failed inference
C9_Witness == InferenceFailed /\ pc = "done"

\* prepare_inputs has returned in this request
Prepared == pc \notin {"idle", "format", "prepare"}

\* the entry stands for a non-empty string: a bare one, or the first element
\* of a list
IsNonEmptyString(entry) ==
    /\ entry.items # <<>>
    /\ entry.items[1].str
    /\ entry.items[1].val # <<>>

\* the entry is a list whose first element exists and has a length
IsListWithSizedHead(entry) ==
    /\ entry.list
    /\ entry.items # <<>>
    /\ entry.items[1].str

\* after a rejection the request is over without inference or post-processing
RejectionEndsRequest ==
    ~inputs.some =>
       /\ pc = "done"
       /\ outcome = "rejected"
       /\ returned = ReturnNone
       /\ inferCalls = 0
       /\ ~outputs.some
       /\ ppLog = <<>>

\* C10 as stated: prepare_inputs returns None for a prompt set that is empty
\* or has an entry that is not a non-empty string, the processor gets only
\* prompts of at most 100 characters, and a rejected request runs no
\* inference and no post-processing.
C10_RejectsEmptyPrompts ==
    Prepared =>
       /\ (\/ formatted_queries = <<>>
           \/ \E i \in DOMAIN formatted_queries : ~IsNonEmptyString(formatted_queries[i]))
             => ~inputs.some
       /\ \A i \in DOMAIN inputs.text : Len(inputs.text[i]) <= 100
       /\ RejectionEndsRequest

\* C10 amended: prepare_inputs returns None for a prompt set that is empty or
\* has an entry that is not a list with a first element that has a length;
\* otherwise the processor, unless it raises, gets the first element of each
\* entry cut to its first 100 characters, an empty string included; a
\* rejected request runs no inference and no post-processing.
C10_RejectsMalformedLists ==
    Prepared =>
       /\ (\/ formatted_queries = <<>>
           \/ \E i \in DOMAIN formatted_queries : ~IsListWithSizedHead(formatted_queries[i]))
             => ~inputs.some
       /\ inputs.some =>
             /\ Len(inputs.text) = Len(formatted_queries)
             /\ \A i \in DOMAIN inputs.text :
                   LET prompt == formatted_queries[i].items[1].val
                   IN  /\ Len(inputs.text[i]) <= 100
                       /\ Len(inputs.text[i]) = (IF Len(prompt) > 100 THEN 100 ELSE Len(prompt))
                       /\ \A j \in DOMAIN inputs.text[i] : inputs.text[i][j] = prompt[j]
       /\ RejectionEndsRequest

\* C10 witness: the processor was handed an empty prompt next to a prompt
\* that was cut from 101 characters
C10_Witness ==
    /\ Prepared
    /\ inputs.some
    /\ \E i \in DOMAIN inputs.text : inputs.text[i] = <<>>
    /\ \E i \in DOMAIN inputs.text :
          Len(formatted_queries[i].items[1].val) > 100 /\ Len(inputs.text[i]) = 100

\* the request is running
Running == pc \in {"format", "prepare", "infer", "ladder", "finish"}

\* C11: every request that was started ends; from its start to its end it
\* makes at most 7 post-processing passes, and at least 1 when its inference
\* succeeded.
C11_TerminatesWithinSevenPasses ==
    /\ Running ~> (pc = "done")
    /\ [](Len(ppLog) <= 7)
    /\ []((pc = "done" /\ outputs.some) => Len(ppLog) >= 1)

\* C11 witness: a request ended with the empty-result report after the
\* seventh pass, at the base threshold 1.0
C11_Witness ==
    /\ pc = "done"
    /\ outcome = "empty"
    /\ confidence_threshold = SliderSteps * SliderStep
    /\ Len(ppLog) = 7
    /\ step = 8

\* format_text_queries has returned in this request
Formatted == pc \notin {"idle", "format", "translate", "translated"}

\* C12 as stated: format_text_queries fails on a query list of length 0, so
\* that no request goes on from it to prepare_inputs with the empty list.
C12_EmptyListFailsInFormatter ==
    ~(pc = "prepare" /\ text_queries = <<>>)

\* C12 amended: for a query list of length 0 format_text_queries returns the
\* empty prompt list, without a translation and without a request to the
\* endpoint, and the request goes on to prepare_inputs, which rejects the
\* empty prompt list: the request ends as rejected, before any inference.
C12_EmptyListRejectedByPrepare ==
    (Formatted /\ text_queries = <<>>) =>
       /\ formatted_queries = <<>>
       /\ translated = <<>>
       /\ requested = <<>>
       /\ pc \in {"prepare", "done"}
       /\ pc = "done" =>
             /\ ~inputs.some
             /\ outcome = "rejected"
             /\ returned = ReturnNone
             /\ inferCalls = 0

\* C12 witness: a request with the empty query list ended as rejected
C12_Witness ==
    /\ pc = "done"
    /\ text_queries = <<>>
    /\ formatted_queries = <<>>
    /\ outcome = "rejected"

\* the smaller of two numbers
Min(a, b) == IF a < b THEN a ELSE b

\* the prompts the i-th query can give, one per reply of the endpoint
PromptsOf(query, method) ==
    { FormatOne(query, method = DictApi, r) : r \in RepliesFor(query, method) }

\* C13: for a query list of length n format_text_queries returns min(n, 5)
\* entries, each a list of one prompt, and the i-th is the prompt of the
\* i-th query: past five queries the first five are kept in their order.
C13_FirstFiveInOrder ==
    Formatted =>
       /\ Len(formatted_queries) = Min(Len(text_queries), 5)
       /\ \A i \in 1..Len(formatted_queries) :
             /\ formatted_queries[i].list
             /\ Len(formatted_queries[i].items) = 1
             /\ formatted_queries[i].items[1].str
             /\ formatted_queries[i].items[1].val
                   \in PromptsOf(text_queries[i], translation_method)

\* C13 witness: seven queries gave five prompts, the fifth of them the prompt
\* of neko, "a photo of a cat"
C13_Witness ==
    /\ Formatted
    /\ Len(text_queries) = 7
    /\ Len(formatted_queries) = 5
    /\ formatted_queries[5].items[1].val = PromptPrefix \o Cat

\* every code point of the string is in 0..127
IsLatin(str) == \A j \in 1..Len(str) : str[j] \in 0..127

\* the elements of a sequence
Range(seq) == {seq[k] : k \in 1..Len(seq)}

\* what the translator can return for a term, over the replies of the endpoint
TranslationsOf(term, method) ==
    { translate_japanese_to_english(term, method = DictApi, r) :
        r \in ApiReplies \cup {NoRequest} }

\* the prompt of the i-th entry of formatted_queries
PromptAt(i) == formatted_queries[i].items[1].val

\* C14, the length of a query being taken after strip() as the code takes it:
\* for a query of more than 50 characters the form that is classified,
\* translated and wrapped is the first 50 characters of the trimmed query,
\* and no term of more than 50 characters reaches the translator; a query of
\* at most 50 characters after strip() is used whole.
C14_LongQueryCutToFifty ==
    Formatted =>
       /\ \A k \in 1..Len(translated) : Len(translated[k]) <= 50
       /\ \A i \in 1..Len(formatted_queries) :
             LET trimmed == Strip(text_queries[i])
                 form == IF Len(trimmed) > 50 THEN SubSeq(trimmed, 1, 50) ELSE trimmed
             IN  IF IsLatin(form)
                 THEN /\ PromptAt(i) = PromptPrefix \o form
                      /\ form \notin Range(translated)
                 ELSE /\ form \in Range(translated)
                      /\ PromptAt(i) \in
                            {PromptPrefix \o t : t \in TranslationsOf(form, translation_method)}

\* C14 witness: of two spaces and 52 letters the 50 first letters were
\* wrapped
C14_Witness ==
    /\ Formatted
    /\ text_queries = << <<32, 32>> \o Alphabet(52) >>
    /\ PromptAt(1) = PromptPrefix \o Alphabet(50)
    /\ Len(PromptAt(1)) = 63

\* the keys of the table that the term contains
KeysIn(term) ==
    {i \in 1..Len(TRANSLATION_DICT) : Contains(TRANSLATION_DICT[i].jp, term)}

\* C15, a query being classified in its trimmed and cut form as the code
\* classifies it: every prompt is "a photo of a " and a term; for a form
\* with code points 0-127 only the term is the form and the translator is
\* not consulted; for a form with a code point above 127 the term is what
\* translate_japanese_to_english returns for it, which is the form itself
\* when it contains no key and the endpoint is not used.
C15_PromptIsPrefixAndTerm ==
    Formatted =>
       /\ \A k \in 1..Len(translated) : ~IsLatin(translated[k])
       /\ \A i \in 1..Len(formatted_queries) :
             LET form == TrimmedQuery(text_queries[i])
                 term == SubSeq(PromptAt(i), Len(PromptPrefix) + 1, Len(PromptAt(i)))
             IN  /\ Len(PromptAt(i)) >= Len(PromptPrefix)
                 /\ SubSeq(PromptAt(i), 1, Len(PromptPrefix)) = PromptPrefix
                 /\ IF IsLatin(form)
                    THEN term = form
                    ELSE /\ term \in TranslationsOf(form, translation_method)
                         /\ form \in Range(translated)
                         /\ (KeysIn(form) = {} /\ translation_method = DictOnly)
                               => term = form

\* C15 witness: "TV", a key of the table, was wrapped as it is next to neko,
\* which was translated, and zou, which was not
C15_Witness ==
    /\ Formatted
    /\ Len(text_queries) = 6
    /\ translation_method = DictOnly
    /\ PromptAt(3) = PromptPrefix \o Cat
    /\ PromptAt(4) = PromptPrefix \o Tv
    /\ PromptAt(5) = PromptPrefix \o Zou
    /\ translated = << Neko, Zou >>

\* C16 as stated: no prompt is returned twice.
C16_NoDuplicatePrompts ==
    Formatted =>
       \A i, j \in 1..Len(formatted_queries) : i # j => PromptAt(i) # PromptAt(j)

\* the English term the table alone fixes for a form: the form itself when
\* it is Latin, the value of the key when it is a key
TableTerm(form) ==
    IF IsLatin(form) THEN SomeStr(form)
    ELSE IF \E k \in 1..Len(TRANSLATION_DICT) : TRANSLATION_DICT[k].jp = form
    THEN SomeStr(TRANSLATION_DICT[CHOOSE k \in 1..Len(TRANSLATION_DICT) :
                                     TRANSLATION_DICT[k].jp = form].en)
    ELSE NoneStr

\* C16 amended: the prompts are not deduplicated.  One prompt is returned for
\* each of the first five queries, and two of these queries with the same
\* form, or with the same English term by the table, give the same prompt
\* twice.
C16_OnePromptPerQuery ==
    Formatted =>
       /\ Len(formatted_queries) = Min(Len(text_queries), MaxQueries)
       /\ \A i, j \in 1..Len(formatted_queries) :
             LET fi == TrimmedQuery(text_queries[i])
                 fj == TrimmedQuery(text_queries[j])
             IN  (TableTerm(fi).some /\ TableTerm(fi) = TableTerm(fj))
                    => PromptAt(i) = PromptAt(j)

\* C16 witness: neko and "cat" both gave "a photo of a cat"
C16_Witness ==
    /\ Formatted
    /\ text_queries = << Neko, Cat >>
    /\ Len(formatted_queries) = 2
    /\ PromptAt(1) = PromptPrefix \o Cat
    /\ PromptAt(2) = PromptPrefix \o Cat

\* the call of translate_japanese_to_english has returned
Returned == pc = "translated"

\* the term of the call is a key of the table
IsKey(term) == \E k \in 1..Len(TRANSLATION_DICT) : TRANSLATION_DICT[k].jp = term

\* C17: for a term that is a key of the table the call returns the value of
\* that key, whatever keys the term contains and whatever use_api is, and
\* the endpoint is not asked.
C17_ExactKeyGivesValue ==
    Returned =>
       \A k \in 1..Len(TRANSLATION_DICT) :
          TRANSLATION_DICT[k].jp = japanese_query =>
             /\ english_translation = SomeStr(TRANSLATION_DICT[k].en)
             /\ requested = <<>>

\* C17 witness: terebi no rimokon, a key that contains the keys terebi and
\* rimokon, gave "television remote control" with use_api set
C17_Witness ==
    /\ Returned
    /\ use_api
    /\ japanese_query = TerebiNoRimokon
    /\ Cardinality(KeysIn(japanese_query)) = 3
    /\ english_translation = SomeStr(TRANSLATION_DICT[ExactIndex(TerebiNoRimokon)].en)

\* C18: for a term that is no key and contains a key, the call returns the
\* value of a longest key the term contains, the earliest of the table among
\* the longest, and the endpoint is not asked.
C18_LongestContainedKeyWins ==
    (Returned /\ ~IsKey(japanese_query) /\ KeysIn(japanese_query) # {}) =>
       /\ \E k \in KeysIn(japanese_query) :
             /\ english_translation = SomeStr(TRANSLATION_DICT[k].en)
             /\ \A j \in KeysIn(japanese_query) :
                   \/ Len(TRANSLATION_DICT[j].jp) < Len(TRANSLATION_DICT[k].jp)
                   \/ /\ Len(TRANSLATION_DICT[j].jp) = Len(TRANSLATION_DICT[k].jp)
                      /\ k <= j
       /\ requested = <<>>

\* C18 witness: ano terebi no rimokon, which contains three keys, gave
\* "television remote control"
C18_Witness ==
    /\ Returned
    /\ ~IsKey(japanese_query)
    /\ Cardinality(KeysIn(japanese_query)) = 3
    /\ english_translation = SomeStr(TRANSLATION_DICT[ExactIndex(TerebiNoRimokon)].en)

\* C19: for a term that is no key and contains no key, the call with use_api
\* disabled returns the term and the endpoint is not asked.
C19_MissReturnsTermUnchanged ==
    (Returned /\ ~IsKey(japanese_query) /\ KeysIn(japanese_query) = {} /\ ~use_api) =>
       /\ english_translation = SomeStr(japanese_query)
       /\ requested = <<>>

\* C19 witness: zou came back unchanged although the endpoint would have
\* translated it
C19_Witness ==
    /\ Returned
    /\ ~use_api
    /\ japanese_query = Zou
    /\ api_reply.kind = "ok"
    /\ api_reply.text # <<>>
    /\ english_translation = SomeStr(Zou)

\* the request to the endpoint failed: a timeout, a connection error, a
\* status other than 200, a body that is no JSON, JSON of an unexpected shape
RequestFailed == api_reply.kind \in {"timeout", "connection", "status", "badjson", "shape", "flat"}

\* C20: when the request to the endpoint fails, in whatever way,
\* _translate_with_api returns None and the call returns the term unchanged.
C20_TranslationFailureSwallowed ==
    (Returned /\ requested # <<>> /\ RequestFailed) =>
       /\ translate_with_api(japanese_query, api_reply) = NoneStr
       /\ english_translation = SomeStr(japanese_query)

\* the term of the call is a total miss of the table
TotalMiss(term) == ~IsKey(term) /\ KeysIn(term) = {}

\* C21: a call of translate_japanese_to_english asks the endpoint only for a
\* term that is a total miss of the table and with use_api set, and then
\* asks it once, for that term, whatever the reply is.
C21_OneRequestOnTotalMiss ==
    /\ pc = "translate" => requested = <<>>
    /\ Returned =>
          requested = IF TotalMiss(japanese_query) /\ use_api
                      THEN << japanese_query >>
                      ELSE <<>>

\* C21 witness: zou was asked for once, and the request timed out
C21_Witness ==
    /\ Returned
    /\ use_api
    /\ japanese_query = Zou
    /\ api_reply.kind = "timeout"
    /\ requested = << Zou >>

\* C22: a string is classified as Japanese if and only if one of its
\* characters has a code point above 127: the forms handed to the translator
\* are those with such a character, and the empty form is not among them.
C22_JapaneseIffAbove127 ==
    Formatted =>
       /\ \A i \in 1..Len(text_queries) :
             LET form == TrimmedQuery(text_queries[i])
             IN  (form \in Range(translated)) <=> (\E j \in 1..Len(form) : form[j] > 127)
       /\ <<>> \notin Range(translated)

\* C22 witness: of an empty form and "caf" with e acute the second alone
\* was handed to the translator
C22_Witness ==
    /\ Formatted
    /\ Len(text_queries) = 2
    /\ TrimmedQuery(text_queries[1]) = <<>>
    /\ translated = << <<99, 97, 102, 233>> >>
    /\ PromptAt(1) = PromptPrefix

\* C23: a call of initialize_model on an OWLViTApp that holds no model
\* returns False when the load fails, and for a model name whose load failed
\* before it executes the loader again instead of taking the failure from
\* the cache.
C23_FailedLoadRetried ==
    [][(pc \in {"new", "ready", "failed"} /\ ~model.some
          /\ pc' \in {"ready", "failed"}) =>
          /\ ~model'.some => pc' = "failed"
          /\ cache_resource[selected_model'] = "failed" =>
                loadCalls'[selected_model'] = loadCalls[selected_model'] + 1]_vars

\* the calls of one image-guided request in the order of the code
GuidedStages ==
    << <<"prepare">>, <<"infer">>, <<"post", confidence_threshold, nms_threshold>> >>

\* C24: an image-guided request calls input preparation, inference and
\* post-processing at most once each and in that order, post-processing
\* with the given confidence and NMS thresholds; a stage is called only
\* after the one before it succeeded, a failed stage ends the request with
\* None, and the request ends with None or an image.
C24_GuidedSinglePass ==
    /\ Len(stages) <= Len(GuidedStages)
    /\ \A k \in 1..Len(stages) : stages[k] = GuidedStages[k]
    /\ Len(stages) >= 2 => inputs.some
    /\ Len(stages) >= 3 => outputs.some
    /\ pc \in {"gfinish", "gdone"} /\ outcome \in {"pending", "image", "empty", "error"}
          => Len(stages) = 3 /\ results.some
    /\ outcome = "rejected" => stages = SubSeq(GuidedStages, 1, 1) /\ ~returned.image
    /\ outcome = "inference failed" => stages = SubSeq(GuidedStages, 1, 2) /\ ~returned.image
    /\ outcome = "post-processing failed" => stages = GuidedStages /\ ~returned.image
    /\ pc = "gdone" =>
          outcome \in {"rejected", "inference failed", "post-processing failed",
                       "empty", "error", "image"}
    /\ returned.image => outcome = "image"

\* C24 witness: the inference of an image-guided request at a confidence of
\* 0.1 and an NMS threshold of 0.3 failed after its preparation, and nothing
\* was post-processed
C24_Witness ==
    /\ pc = "gdone"
    /\ confidence_threshold = 2 * SliderStep
    /\ nms_threshold = 6 * SliderStep
    /\ outcome = "inference failed"
    /\ stages = << <<"prepare">>, <<"infer">> >>
    /\ ~results.some
    /\ ~returned.image

\* the text "a photo of a " a reader of prompts looks for
LeadingText == <<97, 32, 112, 104, 111, 116, 111, 32, 111, 102, 32, 97, 32>>

\* a prompt without its leading "a photo of a "
WithoutLeadingText(prompt) ==
    IF Len(prompt) >= Len(LeadingText) /\ Take(prompt, Len(LeadingText)) = LeadingText
    THEN SubSeq(prompt, Len(LeadingText) + 1, Len(prompt))
    ELSE prompt

\* C25 as stated: for every query that does not contain "a photo of a ",
\* the prompt formatted from it, without its leading "a photo of a ", is the
\* query exactly.
C25_RoundTripRecoversQuery ==
    Formatted =>
       \A i \in 1..Min(Len(text_queries), MaxQueries) :
          ~Contains(text_queries[i], LeadingText) =>
             WithoutLeadingText(PromptAt(i)) = text_queries[i]

\* the query is handed on as it is: nothing to trim, nothing to cut, and
\* Latin, so nothing to translate
HandedOnAsIs(query) ==
    /\ query # <<>> => ~IsSpace(query[1]) /\ ~IsSpace(query[Len(query)])
    /\ Len(query) <= MaxQueryLen
    /\ IsLatin(query)

\* C25 amended: the prompt without its leading "a photo of a " is the query
\* exactly when the query has no surrounding whitespace, at most 50
\* characters and only characters up to code point 127; for any other query
\* it is the trimmed and cut form of a Latin query and a translation of that
\* form otherwise.
C25_RoundTripRecoversWrappedTerm ==
    Formatted =>
       \A i \in 1..Min(Len(text_queries), MaxQueries) :
          LET query == text_queries[i]
              form == TrimmedQuery(query)
              back == WithoutLeadingText(PromptAt(i))
          IN  ~Contains(query, LeadingText) =>
                 /\ HandedOnAsIs(query) => back = query
                 /\ IsLatin(form) => back = form
                 /\ ~IsLatin(form) => back \in TranslationsOf(form, translation_method)

\* C25 witness: "person" came back exactly, and neko in the same list came
\* back as "cat"
C25_Witness ==
    /\ Formatted
    /\ \E i, j \in 1..Min(Len(text_queries), MaxQueries) :
          /\ text_queries[i] = Person
          /\ WithoutLeadingText(PromptAt(i)) = Person
          /\ text_queries[j] = Neko
          /\ WithoutLeadingText(PromptAt(j)) = Cat

\* the list was handed to validate_text_queries
Validated == pc = "validated"

\* C26: validate_text_queries accepts a list if and only if it is not empty
\* and every query keeps at least 2 characters after trimming; one query of
\* one character, neko included, has the list refused, and a query of any
\* greater length is accepted.
C26_ValidIffTwoCharacters ==
    Validated =>
       /\ (outcome = "valid") <=>
             (/\ Len(text_queries) > 0
              /\ \A i \in 1..Len(text_queries) : Len(Strip(text_queries[i])) >= 2)
       /\ (\E i \in 1..Len(text_queries) : Len(text_queries[i]) = 1) => outcome = "invalid"
       /\ Neko \in Range(text_queries) => outcome = "invalid"
       /\ (/\ Len(text_queries) > 0
           /\ \A i \in 1..Len(text_queries) : Len(Strip(text_queries[i])) > MaxQueryLen)
             => outcome = "valid"

\* C26 witness: the list of "ab" and neko was refused
C26_Witness ==
    /\ Validated
    /\ text_queries = << <<97, 98>>, Neko >>
    /\ outcome = "invalid"

\* the request succeeded at some threshold and no post-processing raised:
\* every pass was the filter alone
SucceededByFilter ==
    /\ pc \in {"finish", "done"}
    /\ successful_threshold.some
    /\ ~ppRaised

\* C27: with post-processing acting as a filter on the scores, the
\* successful threshold of a request is at most the base threshold, and at
\* most every threshold tried before it: a floor above an earlier threshold
\* of the ladder is never the successful step, also for a base threshold
\* below the floors.
C27_SuccessNotAboveBase ==
    SucceededByFilter =>
       /\ successful_threshold.val <= confidence_threshold
       /\ \A k \in 1..Len(ppLog) : successful_threshold.val <= ppLog[k]
       /\ confidence_threshold < Floor2 => successful_threshold.val < Floor2

\* C27 witness: at the base threshold 0.0, below both floors, a box of
\* score 0.09 passed the first threshold
C27_Witness ==
    /\ SucceededByFilter
    /\ confidence_threshold = 0
    /\ Len(outputs.val) = 1
    /\ outputs.val[1] = << [score |-> 90000, label |-> 1] >>
    /\ ppLog = << 0 >>
    /\ successful_threshold = SomeThreshold(0)

\* the ladder succeeded and neither the display of the results nor the
\* rendering raised
SucceededAndDisplayed ==
    /\ pc = "done"
    /\ successful_threshold.some
    /\ HasBoxes(results)
    /\ outcome # "error"

\* C28: when the ladder succeeds, an image is returned, and every box of
\* every result entry that the confidence threshold lets through is drawn
\* on it, also when the first entry has no box.
C28_EveryEntryRendered ==
    SucceededAndDisplayed =>
       /\ returned.image
       /\ \A i \in 1..Len(results.val) :
             \A j \in 1..Len(results.val[i]) :
                results.val[i][j].score >= confidence_threshold =>
                   results.val[i][j] \in Range(returned.drawn)

\* the label step ran: the display of the results went through
Labelled == pc = "done" /\ outcome \in {"image", "no boxes"}

\* the value of the table for the query: its entry, or else the first
\* longest key it contains; the query itself when there is neither
DictionaryTranslation(query) == translate_japanese_to_english(query, FALSE, NoRequest)

\* C29 as stated: one label per box of the rendered entry, in box order; a
\* box whose prompt index is below the number of queries has the query as
\* its label, followed by the value of the table in parentheses whenever the
\* table has one for it; any other box has "unknown".
C29_TranslationAppendedWhenInTable ==
    Labelled =>
       /\ Len(labels) = Len(results.val[1])
       /\ \A i \in 1..Len(labels) :
             LET label_idx == results.val[1][i].label
             IN  IF label_idx < Len(text_queries)
                 THEN LET query == text_queries[label_idx + 1]
                      IN  labels[i] =
                             IF DictionaryTranslation(query) # query
                             THEN query \o <<40>> \o DictionaryTranslation(query) \o <<41>>
                             ELSE query
                 ELSE labels[i] = Unknown

\* C29 amended: one label per box of the rendered entry, in box order; a
\* box whose prompt index is below the number of queries has the query as
\* its label, followed by the value of the table in parentheses when the
\* query has a character above code point 127 and the table changes it; a
\* Latin query is its own label; any other box has "unknown".
C29_OneLabelPerBox ==
    Labelled =>
       /\ Len(labels) = Len(results.val[1])
       /\ \A i \in 1..Len(labels) :
             LET label_idx == results.val[1][i].label
             IN  IF label_idx < Len(text_queries)
                 THEN LET query == text_queries[label_idx + 1]
                      IN  labels[i] =
                             IF ~IsLatin(query) /\ DictionaryTranslation(query) # query
                             THEN query \o <<40>> \o DictionaryTranslation(query) \o <<41>>
                             ELSE query
                 ELSE labels[i] = Unknown

\* C29 witness: two boxes in the rendered entry, the first matched to the
\* second query, "cat", and the second to the first query, terebi no
\* rimokon: the labels are "cat" and then the query with its translation in
\* parentheses, in the order of the boxes and not of the queries
C29_Witness ==
    /\ Labelled
    /\ outcome = "image"
    /\ Len(text_queries) = 2
    /\ text_queries[1] = TerebiNoRimokon
    /\ results.val[1] = << [score |-> 90000, label |-> 1],
                           [score |-> 8000, label |-> 0] >>
    /\ labels = << text_queries[2],
                   TerebiNoRimokon \o <<40>> \o TRANSLATION_DICT[ExactIndex(TerebiNoRimokon)].en \o <<41>> >>
    /\ labels[1] = <<99, 97, 116>>

\* the trimmed forms of the queries that format_text_queries can only hand
\* to the endpoint: not Latin, and a total miss of the table
EndpointTerms ==
    SelectSeq([i \in 1..Len(text_queries) |-> TrimmedQuery(text_queries[i])],
              LAMBDA form : ~IsLatin(form) /\ TotalMiss(form))

\* C30: a request in the dictionary-only mode sends nothing to the
\* translation endpoint; in the API mode what is sent is sent by
\* format_text_queries, at most once per query of the list, and the label
\* step adds nothing.
C30_RequestsOnlyFromFormatting ==
    /\ translation_method = DictOnly => requested = <<>>
    /\ pc \in {"idle", "format"} => requested = <<>>
    /\ pc \notin {"idle", "format"} /\ translation_method = DictApi =>
          requested = EndpointTerms
    /\ Len(requested) <= Len(text_queries)

\* C30 witness: in the API mode zou was sent once by format_text_queries,
\* and the label step translated it again without sending anything
C30_Witness ==
    /\ Labelled
    /\ translation_method = DictApi
    /\ text_queries = << Zou >>
    /\ labels = << Zou >>
    /\ translated = << Zou, Zou >>
    /\ requested = << Zou >>

=============================================================================
